---------------------------- MODULE Spec2Model ----------------------------
(***************************************************************************)
(* State-machine model of the ghidra-frida trace agent                     *)
(* (ghidrafrida/commands.py, ghidrafrida/util.py, ghidrafrida/arch.py).    *)
(*                                                                         *)
(* The session (State), the selection and bookkeeping kept in util, the    *)
(* executor's running flag and the trace's object tree are the variables;  *)
(* every command of commands.py that the verified properties speak about   *)
(* is one action.  A callback that normalises a scripted reply is an       *)
(* operator from the trace contents and the reply to the new contents, so  *)
(* that the same definition drives the actions and the properties.         *)
(* The executor's queue, futures and threads (ExecSpec) and the functions  *)
(* of arch.py (ArchSpec, MapperSpec, RegisterSpec) have their own          *)
(* variables, which the commands leave alone: a command runs its calls     *)
(* through the executor to their end, so the queue is empty between        *)
(* commands, and the trace's register mapper is the one start_trace        *)
(* selected under the settings.                                            *)
(***************************************************************************)
EXTENDS Naturals, Integers, Sequences, FiniteSets, TLC

(***************************************************************************)
(* Bounds of the model.                                                    *)
(***************************************************************************)
MaxTx == 3        \* transaction ids that may be referenced at one time
MaxSnap == 2      \* snapshots 0..MaxSnap
MaxKey == 3       \* element keys (bases, module paths, thread ids) 1..MaxKey
MaxVal == 2       \* values of a record's payload field 1..MaxVal
MaxRecs == 2      \* records in one scripted reply
MaxPuts == 1      \* trace-writing commands that get past their preconditions
MaxPid == 1       \* process ids on the device 1..MaxPid
MaxNest == 1      \* nested open_tracked_tx blocks

None == 0         \* Python's None, for every optional field
TheClient == 1    \* the Client object held in STATE.client
TheTrace == 1     \* the Trace object held in STATE.trace

TxIds == 1..MaxTx
Snaps == 0..MaxSnap
Keys == 1..MaxKey
Vals == 1..MaxVal
Pids == 1..MaxPid

VARIABLES
    State,          \* commands.STATE (the instance of class State): [client, trace, tx]
    tracing,        \* util.conv_map['_ghidra_tracing']
    register_mapper,    \* STATE.trace.register_mapper (NoneValue without a trace)
    openTxs,        \* the trace's transactions started and not yet committed or aborted
    snap,           \* the trace's current snapshot
    store,          \* the trace's object tree: path -> [life, val]
    current_state,  \* util.current_state: [sid, pid, tid, fid]
    processes,      \* util.processes (its keys)
    targets,        \* util.targets (its keys)
    spawned,        \* device side: processes spawned through dbg.spawn
    attached,       \* device side: processes a session is attached to
    executing,      \* DbgExecutor._executing
    withStack,      \* the transactions of the open_tracked_tx blocks in progress
    pc,             \* position of the caller inside a command that holds a `with` block
    nput,           \* trace-writing commands that got past their preconditions
    err,            \* what the last command, or the handler it ran, raised ("ok": nothing)
    did,            \* what the last command did besides: "batch", "query", "retain"
    reply,          \* the reply the last scripted query of the last command got
    calls,          \* the calls the last command made on the trace's register spaces
                    \* and memory and on its transactions (commit, abort), and the
                    \* memory reads it scripted, in order
    cmd,            \* the command, or the step of one, that ran last
    work_queue,     \* DbgExecutor._work_queue: the work items put and not yet taken
    future,         \* the Future of each work item: its state
    submitted,      \* each work item's submitter and function
    thread,         \* each thread's position: [at, item]
    ranlog,         \* the work items the worker has run, in the order it took them
    lastcall,       \* the last target-facing call and the thread that executed it
    conv_map,       \* util.conv_map: the settings read by arch.py
    params,         \* what dbg.query_system_parameters() answers
    returned        \* what the last call of a function of arch.py returned or raised

sessionVars == <<State, tracing, register_mapper>>
traceVars == <<openTxs, snap, store, nput>>
utilVars == <<current_state, processes, targets>>
deviceVars == <<spawned, attached>>
execVars == <<work_queue, future, submitted, thread, ranlog, lastcall>>
archVars == <<conv_map, params, returned>>
vars == <<State, tracing, register_mapper, openTxs, snap, store, current_state, processes,
          targets, spawned, attached, executing, withStack, pc, nput, err, did,
          reply, calls, cmd, work_queue, future, submitted, thread, ranlog, lastcall,
          conv_map, params, returned>>

Idle == [at |-> "idle", tx |-> None, pid |-> None, attach |-> FALSE]

\* No scripted query was answered: cat "none".
NoReply == [cat |-> "none", message |-> [type |-> "silent", value |-> <<>>], data |-> ""]

Range(s) == {s[i] : i \in DOMAIN s}

(***************************************************************************)
(* class State (commands.py)                                               *)
(***************************************************************************)
\* reset_tx leaving STATE.tx as it is.
reset_tx_kept(S) == S

reset_tx(S) == [S EXCEPT !.tx = None]

\* reset_trace without its reset_tx.
reset_trace_only(S) == [S EXCEPT !.trace = None]

reset_trace(S) == reset_tx([S EXCEPT !.trace = None])

reset_client(S) == reset_trace([S EXCEPT !.client = None])

require_client_fails(S) == S.client = None

require_no_client_fails(S) == S.client # None

require_trace_fails(S) == S.trace = None

require_no_trace_fails(S) == S.trace # None

\* require_tx accepting a session without a transaction.
require_tx_unchecked(S) == FALSE

require_tx_fails(S) == S.tx = None

\* require_no_tx accepting a session that holds a transaction.
require_no_tx_unchecked(S) == FALSE

require_no_tx_fails(S) == S.tx # None

(***************************************************************************)
(* The trace (ghidratrace client, an external collaborator).  A            *)
(* transaction is open from start_tx/open_tx until its commit or abort;    *)
(* committing or aborting a transaction that is already closed does        *)
(* nothing.  Transaction ids are reused once nothing refers to them.       *)
(***************************************************************************)
UsedTx == openTxs \cup {State.tx} \cup Range(withStack) \cup {pc.tx}

CanStartTx == \E t \in TxIds : t \notin UsedTx

FreshTx == CHOOSE t \in TxIds : t \notin UsedTx /\ \A u \in TxIds : u \notin UsedTx => t <= u

EmptyStore == [p \in {} |-> [life |-> {}, val |-> None]]

(***************************************************************************)
(* The executor's threads and work items (util.py, DbgExecutor, _Worker,   *)
(* _WorkItem), and the inputs of arch.py.                                  *)
(***************************************************************************)
MaxItems == 2     \* futures created by submit: work items 1..MaxItems

Items == 1..MaxItems

\* The threads that call into the executor, its worker thread, and the
\* thread of whoever calls _state_execute and _state_break.
Callers == {"MainThread", "Thread-1"}
Worker == "DbgWorker"
Gate == "Gate"
Threads == Callers \cup {Worker, Gate}

NoCall == [call |-> "none", thread |-> "none"]

ExecutorInit ==
    /\ work_queue = <<>>
    /\ future = [i \in Items |-> "unborn"]
    /\ submitted = [i \in Items |-> [by |-> "none", fn |-> "none"]]
    /\ thread = [t \in Threads |-> [at |-> "idle", item |-> None]]
    /\ ranlog = <<>>
    /\ lastcall = NoCall

\* A setting of util.conv_map that was never set, and one set to None.
Unset == "<unset>"
NoneValue == "<None>"
Settings == {"endian", "osabi", "ghidra-language", "ghidra-compiler"}

\* A Python int as its sign and the base-256 digits of its magnitude, most
\* significant first and without leading zeros; a value of another type
\* carries its type's name.
NoNumber == [type |-> "NoneType", sign |-> 1, digits |-> <<>>]

\* returned: the function called, its arguments (lang; self, proc, offset or
\* address; name, number), what it raised (with its message) and what it
\* returned (value, offset, address; out: a register name; regval: a RegVal).
NoResult ==
    [of |-> "none", raised |-> "ok", value |-> "", lang |-> "", self |-> "", proc |-> None,
     offset |-> None, address |-> [space |-> "", offset |-> None],
     name |-> <<>>, number |-> NoNumber, out |-> <<>>,
     regval |-> [name |-> <<>>, value |-> <<>>], message |-> <<>>]

ArchInit ==
    /\ conv_map = [k \in Settings |-> Unset]
    /\ params = [ok |-> TRUE, arch |-> "x64", platform |-> "linux"]
    /\ returned = NoResult

Constructed ==
    /\ State = [client |-> None, trace |-> None, tx |-> None]
    /\ tracing = "false"
    /\ register_mapper = NoneValue
    /\ openTxs = {}
    /\ snap = 0
    /\ store = EmptyStore
    /\ current_state = [sid |-> "local", pid |-> None, tid |-> None, fid |-> None]
    /\ processes = {}
    /\ targets = {}
    /\ spawned = {}
    /\ attached = {}
    /\ executing = FALSE
    /\ withStack = <<>>
    /\ pc = Idle
    /\ nput = 0
    /\ err = "ok"
    /\ did = {}
    /\ reply = NoReply
    /\ calls = <<>>
    /\ cmd = ""
    /\ ExecutorInit

Init == Constructed /\ ArchInit


allButErr == <<State, tracing, register_mapper, openTxs, snap, store, current_state, processes,
               targets, spawned, attached, executing, withStack, pc, nput>>

\* The command raises e before it has changed anything.
Raise(e) == err' = e /\ did' = {} /\ reply' = NoReply /\ calls' = <<>> /\ UNCHANGED allButErr

(***************************************************************************)
(* The object tree.  An object is created at a path, has values set from   *)
(* a snapshot on, and is inserted (visible from the current snapshot on)   *)
(* or removed (invisible from the current snapshot on); life is the set    *)
(* of snapshots at which it is visible.  A path is the sequence of its     *)
(* names and keys: Sessions[local].Processes[1].Memory is                  *)
(* <<"Sessions", "local", "Processes", "1", "Memory">>.  An element of a   *)
(* container is the object at container[key].                              *)
(***************************************************************************)
Fmt(x) == IF x = None THEN "None" ELSE ToString(x)

Elem(container, key) == Append(container, key)

Child(path, name) == Append(path, name)

IsElem(path, container) ==
    /\ Len(path) = Len(container) + 1
    /\ SubSeq(path, 1, Len(container)) = container

KeyOf(path) == path[Len(path)]

From(s) == {n \in Snaps : n >= s}

create_object(st, path) ==
    IF path \in DOMAIN st THEN st
    ELSE (path :> [life |-> {}, val |-> [n \in Snaps |-> None]]) @@ st

set_value(st, path, s, v) ==
    [st EXCEPT ![path].val = [n \in Snaps |-> IF n >= s THEN v ELSE @[n]]]

insert(st, path, s) == [st EXCEPT ![path].life = @ \cup From(s)]

remove(st, path, s) == [st EXCEPT ![path].life = @ \ From(s)]

\* TraceObject.retain_values(keys), kinds='elements': every element of the
\* container whose key is not listed is removed from the current snapshot on.
retain_values(st, container, keys, s) ==
    [p \in DOMAIN st |->
        IF IsElem(p, container) /\ KeyOf(p) \notin keys
        THEN [st[p] EXCEPT !.life = @ \ From(s)]
        ELSE st[p]]

\* The keys of the container's elements visible at snapshot s.
Visible(st, container, s) ==
    {KeyOf(p) : p \in {q \in DOMAIN st : IsElem(q, container) /\ s \in st[q].life}}

(***************************************************************************)
(* Path patterns (commands.py, lines 35-97).                               *)
(***************************************************************************)
SESSIONS_PATH == <<"Sessions">>

SESSION_PATTERN(sid) == Elem(SESSIONS_PATH, sid)

PROCESSES_PATH == <<"Sessions", "{sid}", "Processes">>   \* the pattern, as written, unformatted

PROCESSES_PATH_format(sid) == Child(SESSION_PATTERN(sid), "Processes")

PROCESS_PATTERN(sid, pid) == Elem(PROCESSES_PATH_format(sid), Fmt(pid))

(***************************************************************************)
(* arch.py: the language and compiler tables, the resolution functions and *)
(* the default memory mapper.  Strings are atoms here, so the string       *)
(* operations the functions use (len, `in`, endswith) are tabulated over   *)
(* the language ids.                                                       *)
(***************************************************************************)
\* arch.language_map
language_map ==
    (  "aarch64" :> <<"AARCH64:BE:64:v8A", "AARCH64:LE:64:AppleSilicon", "AARCH64:LE:64:v8A">>
    @@ "aarch64:ilp32" :> <<"AARCH64:BE:32:ilp32", "AARCH64:LE:32:ilp32", "AARCH64:LE:64:AppleSilicon">>
    @@ "arm_any" :> <<"ARM:BE:32:v8", "ARM:BE:32:v8T", "ARM:LE:32:v8", "ARM:LE:32:v8T">>
    @@ "armv2" :> <<"ARM:BE:32:v4", "ARM:LE:32:v4">>
    @@ "armv2a" :> <<"ARM:BE:32:v4", "ARM:LE:32:v4">>
    @@ "armv3" :> <<"ARM:BE:32:v4", "ARM:LE:32:v4">>
    @@ "armv3m" :> <<"ARM:BE:32:v4", "ARM:LE:32:v4">>
    @@ "armv4" :> <<"ARM:BE:32:v4", "ARM:LE:32:v4">>
    @@ "armv4t" :> <<"ARM:BE:32:v4t", "ARM:LE:32:v4t">>
    @@ "armv5" :> <<"ARM:BE:32:v5", "ARM:LE:32:v5">>
    @@ "armv5t" :> <<"ARM:BE:32:v5t", "ARM:LE:32:v5t">>
    @@ "armv5tej" :> <<"ARM:BE:32:v5t", "ARM:LE:32:v5t">>
    @@ "armv6" :> <<"ARM:BE:32:v6", "ARM:LE:32:v6">>
    @@ "armv6-m" :> <<"ARM:BE:32:Cortex", "ARM:LE:32:Cortex">>
    @@ "armv6k" :> <<"ARM:BE:32:Cortex", "ARM:LE:32:Cortex">>
    @@ "armv6kz" :> <<"ARM:BE:32:Cortex", "ARM:LE:32:Cortex">>
    @@ "armv6s-m" :> <<"ARM:BE:32:Cortex", "ARM:LE:32:Cortex">>
    @@ "armv7" :> <<"ARM:BE:32:v7", "ARM:LE:32:v7">>
    @@ "armv7e-m" :> <<"ARM:LE:32:Cortex">>
    @@ "armv8-a" :> <<"ARM:BE:32:v8", "ARM:LE:32:v8">>
    @@ "armv8-m.base" :> <<"ARM:BE:32:v8", "ARM:LE:32:v8">>
    @@ "armv8-m.main" :> <<"ARM:BE:32:v8", "ARM:LE:32:v8">>
    @@ "armv8-r" :> <<"ARM:BE:32:v8", "ARM:LE:32:v8">>
    @@ "armv8.1-m.main" :> <<"ARM:BE:32:v8", "ARM:LE:32:v8">>
    @@ "avr:107" :> <<"avr8:LE:24:xmega">>
    @@ "avr:31" :> <<"avr8:LE:16:default">>
    @@ "avr:51" :> <<"avr8:LE:16:atmega256">>
    @@ "avr:6" :> <<"avr8:LE:16:atmega256">>
    @@ "hppa2.0w" :> <<"pa-risc:BE:32:default">>
    @@ "i386" :> <<"x86:LE:32:default">>
    @@ "i386:intel" :> <<"x86:LE:32:default">>
    @@ "i386:x86-64" :> <<"x86:LE:64:default">>
    @@ "i386:x86-64:intel" :> <<"x86:LE:64:default">>
    @@ "i8086" :> <<"x86:LE:16:Protected Mode", "x86:LE:16:Real Mode">>
    @@ "iwmmxt" :> <<"ARM:BE:32:v7", "ARM:BE:32:v8", "ARM:BE:32:v8T", "ARM:LE:32:v7", "ARM:LE:32:v8", "ARM:LE:32:v8T">>
    @@ "m68hc12" :> <<"HC-12:BE:16:default">>
    @@ "m68k" :> <<"68000:BE:32:default">>
    @@ "m68k:68020" :> <<"68000:BE:32:MC68020">>
    @@ "m68k:68030" :> <<"68000:BE:32:MC68030">>
    @@ "m9s12x" :> <<"HCS-12:BE:24:default", "HCS-12X:BE:24:default">>
    @@ "mips:4000" :> <<"MIPS:BE:32:default", "MIPS:LE:32:default">>
    @@ "mips:5000" :> <<"MIPS:BE:64:64-32addr", "MIPS:BE:64:default", "MIPS:LE:64:64-32addr", "MIPS:LE:64:default">>
    @@ "mips:micromips" :> <<"MIPS:BE:32:micro">>
    @@ "msp:430X" :> <<"TI_MSP430:LE:16:default">>
    @@ "powerpc:403" :> <<"PowerPC:BE:32:4xx", "PowerPC:LE:32:4xx">>
    @@ "powerpc:MPC8XX" :> <<"PowerPC:BE:32:MPC8270", "PowerPC:BE:32:QUICC", "PowerPC:LE:32:QUICC">>
    @@ "powerpc:common" :> <<"PowerPC:BE:32:default", "PowerPC:LE:32:default">>
    @@ "powerpc:common64" :> <<"PowerPC:BE:64:64-32addr", "PowerPC:BE:64:default", "PowerPC:LE:64:64-32addr", "PowerPC:LE:64:default">>
    @@ "powerpc:e500" :> <<"PowerPC:BE:32:e500", "PowerPC:LE:32:e500">>
    @@ "powerpc:e500mc" :> <<"PowerPC:BE:64:A2ALT", "PowerPC:LE:64:A2ALT">>
    @@ "powerpc:e500mc64" :> <<"PowerPC:BE:64:A2-32addr", "PowerPC:BE:64:A2ALT-32addr", "PowerPC:LE:64:A2-32addr", "PowerPC:LE:64:A2ALT-32addr">>
    @@ "riscv:rv32" :> <<"RISCV:LE:32:RV32G", "RISCV:LE:32:RV32GC", "RISCV:LE:32:RV32I", "RISCV:LE:32:RV32IC", "RISCV:LE:32:RV32IMC", "RISCV:LE:32:default">>
    @@ "riscv:rv64" :> <<"RISCV:LE:64:RV64G", "RISCV:LE:64:RV64GC", "RISCV:LE:64:RV64I", "RISCV:LE:64:RV64IC", "RISCV:LE:64:default">>
    @@ "sh4" :> <<"SuperH4:BE:32:default", "SuperH4:LE:32:default">>
    @@ "sparc:v9b" :> <<"sparc:BE:32:default", "sparc:BE:64:default">>
    @@ "x86" :> <<"x86:LE:32:default">>
    @@ "x64" :> <<"x86:LE:64:default">>
    @@ "xscale" :> <<"ARM:BE:32:v6", "ARM:LE:32:v6">>
    @@ "z80" :> <<"z80:LE:16:default", "z8401x:LE:16:default">>)

\* The language ids the functions of arch.py are applied to: those of
\* language_map, the two DATA fallbacks and one that no table names.
LanguageIds ==
    {"AARCH64:BE:64:v8A", "AARCH64:LE:64:AppleSilicon",
     "AARCH64:LE:64:v8A", "AARCH64:BE:32:ilp32", "AARCH64:LE:32:ilp32",
     "ARM:BE:32:v8", "ARM:BE:32:v8T", "ARM:LE:32:v8", "ARM:LE:32:v8T",
     "ARM:BE:32:v4", "ARM:LE:32:v4", "ARM:BE:32:v4t", "ARM:LE:32:v4t",
     "ARM:BE:32:v5", "ARM:LE:32:v5", "ARM:BE:32:v5t", "ARM:LE:32:v5t",
     "ARM:BE:32:v6", "ARM:LE:32:v6", "ARM:BE:32:Cortex",
     "ARM:LE:32:Cortex", "ARM:BE:32:v7", "ARM:LE:32:v7",
     "avr8:LE:24:xmega", "avr8:LE:16:default", "avr8:LE:16:atmega256",
     "pa-risc:BE:32:default", "x86:LE:32:default", "x86:LE:64:default",
     "x86:LE:16:Protected Mode", "x86:LE:16:Real Mode",
     "HC-12:BE:16:default", "68000:BE:32:default", "68000:BE:32:MC68020",
     "68000:BE:32:MC68030", "HCS-12:BE:24:default",
     "HCS-12X:BE:24:default", "MIPS:BE:32:default", "MIPS:LE:32:default",
     "MIPS:BE:64:64-32addr", "MIPS:BE:64:default", "MIPS:LE:64:64-32addr",
     "MIPS:LE:64:default", "MIPS:BE:32:micro", "TI_MSP430:LE:16:default",
     "PowerPC:BE:32:4xx", "PowerPC:LE:32:4xx", "PowerPC:BE:32:MPC8270",
     "PowerPC:BE:32:QUICC", "PowerPC:LE:32:QUICC", "PowerPC:BE:32:default",
     "PowerPC:LE:32:default", "PowerPC:BE:64:64-32addr",
     "PowerPC:BE:64:default", "PowerPC:LE:64:64-32addr",
     "PowerPC:LE:64:default", "PowerPC:BE:32:e500", "PowerPC:LE:32:e500",
     "PowerPC:BE:64:A2ALT", "PowerPC:LE:64:A2ALT",
     "PowerPC:BE:64:A2-32addr", "PowerPC:BE:64:A2ALT-32addr",
     "PowerPC:LE:64:A2-32addr", "PowerPC:LE:64:A2ALT-32addr",
     "RISCV:LE:32:RV32G", "RISCV:LE:32:RV32GC", "RISCV:LE:32:RV32I",
     "RISCV:LE:32:RV32IC", "RISCV:LE:32:RV32IMC", "RISCV:LE:32:default",
     "RISCV:LE:64:RV64G", "RISCV:LE:64:RV64GC", "RISCV:LE:64:RV64I",
     "RISCV:LE:64:RV64IC", "RISCV:LE:64:default", "SuperH4:BE:32:default",
     "SuperH4:LE:32:default", "sparc:BE:32:default", "sparc:BE:64:default",
     "z80:LE:16:default", "z8401x:LE:16:default", "DATA:BE:64:default",
     "DATA:LE:64:default", "Toy:BE:32:default"}

\* len(l), for the ids above
StrLen ==
    ("AARCH64:BE:64:v8A" :> 17 @@ "AARCH64:LE:64:AppleSilicon" :> 26 @@
     "AARCH64:LE:64:v8A" :> 17 @@ "AARCH64:BE:32:ilp32" :> 19 @@
     "AARCH64:LE:32:ilp32" :> 19 @@ "ARM:BE:32:v8" :> 12 @@
     "ARM:BE:32:v8T" :> 13 @@ "ARM:LE:32:v8" :> 12 @@
     "ARM:LE:32:v8T" :> 13 @@ "ARM:BE:32:v4" :> 12 @@
     "ARM:LE:32:v4" :> 12 @@ "ARM:BE:32:v4t" :> 13 @@
     "ARM:LE:32:v4t" :> 13 @@ "ARM:BE:32:v5" :> 12 @@
     "ARM:LE:32:v5" :> 12 @@ "ARM:BE:32:v5t" :> 13 @@
     "ARM:LE:32:v5t" :> 13 @@ "ARM:BE:32:v6" :> 12 @@
     "ARM:LE:32:v6" :> 12 @@ "ARM:BE:32:Cortex" :> 16 @@
     "ARM:LE:32:Cortex" :> 16 @@ "ARM:BE:32:v7" :> 12 @@
     "ARM:LE:32:v7" :> 12 @@ "avr8:LE:24:xmega" :> 16 @@
     "avr8:LE:16:default" :> 18 @@ "avr8:LE:16:atmega256" :> 20 @@
     "pa-risc:BE:32:default" :> 21 @@ "x86:LE:32:default" :> 17 @@
     "x86:LE:64:default" :> 17 @@ "x86:LE:16:Protected Mode" :> 24 @@
     "x86:LE:16:Real Mode" :> 19 @@ "HC-12:BE:16:default" :> 19 @@
     "68000:BE:32:default" :> 19 @@ "68000:BE:32:MC68020" :> 19 @@
     "68000:BE:32:MC68030" :> 19 @@ "HCS-12:BE:24:default" :> 20 @@
     "HCS-12X:BE:24:default" :> 21 @@ "MIPS:BE:32:default" :> 18 @@
     "MIPS:LE:32:default" :> 18 @@ "MIPS:BE:64:64-32addr" :> 20 @@
     "MIPS:BE:64:default" :> 18 @@ "MIPS:LE:64:64-32addr" :> 20 @@
     "MIPS:LE:64:default" :> 18 @@ "MIPS:BE:32:micro" :> 16 @@
     "TI_MSP430:LE:16:default" :> 23 @@ "PowerPC:BE:32:4xx" :> 17 @@
     "PowerPC:LE:32:4xx" :> 17 @@ "PowerPC:BE:32:MPC8270" :> 21 @@
     "PowerPC:BE:32:QUICC" :> 19 @@ "PowerPC:LE:32:QUICC" :> 19 @@
     "PowerPC:BE:32:default" :> 21 @@ "PowerPC:LE:32:default" :> 21 @@
     "PowerPC:BE:64:64-32addr" :> 23 @@ "PowerPC:BE:64:default" :> 21 @@
     "PowerPC:LE:64:64-32addr" :> 23 @@ "PowerPC:LE:64:default" :> 21 @@
     "PowerPC:BE:32:e500" :> 18 @@ "PowerPC:LE:32:e500" :> 18 @@
     "PowerPC:BE:64:A2ALT" :> 19 @@ "PowerPC:LE:64:A2ALT" :> 19 @@
     "PowerPC:BE:64:A2-32addr" :> 23 @@
     "PowerPC:BE:64:A2ALT-32addr" :> 26 @@
     "PowerPC:LE:64:A2-32addr" :> 23 @@
     "PowerPC:LE:64:A2ALT-32addr" :> 26 @@ "RISCV:LE:32:RV32G" :> 17 @@
     "RISCV:LE:32:RV32GC" :> 18 @@ "RISCV:LE:32:RV32I" :> 17 @@
     "RISCV:LE:32:RV32IC" :> 18 @@ "RISCV:LE:32:RV32IMC" :> 19 @@
     "RISCV:LE:32:default" :> 19 @@ "RISCV:LE:64:RV64G" :> 17 @@
     "RISCV:LE:64:RV64GC" :> 18 @@ "RISCV:LE:64:RV64I" :> 17 @@
     "RISCV:LE:64:RV64IC" :> 18 @@ "RISCV:LE:64:default" :> 19 @@
     "SuperH4:BE:32:default" :> 21 @@ "SuperH4:LE:32:default" :> 21 @@
     "sparc:BE:32:default" :> 19 @@ "sparc:BE:64:default" :> 19 @@
     "z80:LE:16:default" :> 17 @@ "z8401x:LE:16:default" :> 20 @@
     "DATA:BE:64:default" :> 18 @@ "DATA:LE:64:default" :> 18 @@
     "Toy:BE:32:default" :> 17)

\* ':BE:' in l
ContainsBE ==
    {"AARCH64:BE:64:v8A", "AARCH64:BE:32:ilp32", "ARM:BE:32:v8",
     "ARM:BE:32:v8T", "ARM:BE:32:v4", "ARM:BE:32:v4t", "ARM:BE:32:v5",
     "ARM:BE:32:v5t", "ARM:BE:32:v6", "ARM:BE:32:Cortex", "ARM:BE:32:v7",
     "pa-risc:BE:32:default", "HC-12:BE:16:default", "68000:BE:32:default",
     "68000:BE:32:MC68020", "68000:BE:32:MC68030", "HCS-12:BE:24:default",
     "HCS-12X:BE:24:default", "MIPS:BE:32:default", "MIPS:BE:64:64-32addr",
     "MIPS:BE:64:default", "MIPS:BE:32:micro", "PowerPC:BE:32:4xx",
     "PowerPC:BE:32:MPC8270", "PowerPC:BE:32:QUICC",
     "PowerPC:BE:32:default", "PowerPC:BE:64:64-32addr",
     "PowerPC:BE:64:default", "PowerPC:BE:32:e500", "PowerPC:BE:64:A2ALT",
     "PowerPC:BE:64:A2-32addr", "PowerPC:BE:64:A2ALT-32addr",
     "SuperH4:BE:32:default", "sparc:BE:32:default", "sparc:BE:64:default",
     "DATA:BE:64:default", "Toy:BE:32:default"}

\* ':LE:' in l
ContainsLE ==
    {"AARCH64:LE:64:AppleSilicon", "AARCH64:LE:64:v8A",
     "AARCH64:LE:32:ilp32", "ARM:LE:32:v8", "ARM:LE:32:v8T",
     "ARM:LE:32:v4", "ARM:LE:32:v4t", "ARM:LE:32:v5", "ARM:LE:32:v5t",
     "ARM:LE:32:v6", "ARM:LE:32:Cortex", "ARM:LE:32:v7",
     "avr8:LE:24:xmega", "avr8:LE:16:default", "avr8:LE:16:atmega256",
     "x86:LE:32:default", "x86:LE:64:default", "x86:LE:16:Protected Mode",
     "x86:LE:16:Real Mode", "MIPS:LE:32:default", "MIPS:LE:64:64-32addr",
     "MIPS:LE:64:default", "TI_MSP430:LE:16:default", "PowerPC:LE:32:4xx",
     "PowerPC:LE:32:QUICC", "PowerPC:LE:32:default",
     "PowerPC:LE:64:64-32addr", "PowerPC:LE:64:default",
     "PowerPC:LE:32:e500", "PowerPC:LE:64:A2ALT",
     "PowerPC:LE:64:A2-32addr", "PowerPC:LE:64:A2ALT-32addr",
     "RISCV:LE:32:RV32G", "RISCV:LE:32:RV32GC", "RISCV:LE:32:RV32I",
     "RISCV:LE:32:RV32IC", "RISCV:LE:32:RV32IMC", "RISCV:LE:32:default",
     "RISCV:LE:64:RV64G", "RISCV:LE:64:RV64GC", "RISCV:LE:64:RV64I",
     "RISCV:LE:64:RV64IC", "RISCV:LE:64:default", "SuperH4:LE:32:default",
     "z80:LE:16:default", "z8401x:LE:16:default", "DATA:LE:64:default"}

\* l.endswith(':default')
EndsWithDefault ==
    {"avr8:LE:16:default", "pa-risc:BE:32:default", "x86:LE:32:default",
     "x86:LE:64:default", "HC-12:BE:16:default", "68000:BE:32:default",
     "HCS-12:BE:24:default", "HCS-12X:BE:24:default", "MIPS:BE:32:default",
     "MIPS:LE:32:default", "MIPS:BE:64:default", "MIPS:LE:64:default",
     "TI_MSP430:LE:16:default", "PowerPC:BE:32:default",
     "PowerPC:LE:32:default", "PowerPC:BE:64:default",
     "PowerPC:LE:64:default", "RISCV:LE:32:default", "RISCV:LE:64:default",
     "SuperH4:BE:32:default", "SuperH4:LE:32:default",
     "sparc:BE:32:default", "sparc:BE:64:default", "z80:LE:16:default",
     "z8401x:LE:16:default", "DATA:BE:64:default", "DATA:LE:64:default",
     "Toy:BE:32:default"}

\* arch.data64_compiler_map; its key None is NoneValue
data64_compiler_map == (NoneValue :> "pointer64")

\* arch.x86_compiler_map
x86_compiler_map == ("linux" :> "gcc" @@ "windows" :> "windows" @@ "Cygwin" :> "Visual Studio")

\* arch.compiler_map
compiler_map ==
    (  "DATA:BE:64:default" :> data64_compiler_map
    @@ "DATA:LE:64:default" :> data64_compiler_map
    @@ "x86:LE:32:default" :> x86_compiler_map
    @@ "x86:LE:64:default" :> x86_compiler_map)

\* A lookup that hands out the stored value as it is.
get_convenience_variable_raw(id) == conv_map[id]

\* util.get_convenience_variable
get_convenience_variable(id) ==
    IF conv_map[id] = Unset THEN "auto"
    ELSE IF conv_map[id] = NoneValue THEN "auto"
    ELSE conv_map[id]

Returns(value) == [raised |-> "ok", value |-> value]

Raises(e) == [raised |-> e, value |-> ""]

\* arch.get_arch: an Exception of the query gives "Unknown".
get_arch == IF params.ok THEN params.arch ELSE "Unknown"

\* get_endian without its default.
get_endian_raw == get_convenience_variable("endian")

\* arch.get_endian
get_endian ==
    LET parm == get_convenience_variable("endian")
    IN IF parm # "auto" /\ parm # NoneValue THEN parm ELSE "little"

\* arch.get_osabi: an Exception of the query is caught and printed, and the
\* return statement then reads the local `params` that was never bound.
get_osabi ==
    LET parm == get_convenience_variable("osabi")
    IN IF parm \notin {"auto", "default"} THEN Returns(parm)
       ELSE IF params.ok THEN Returns(params.platform)
       ELSE Raises("UnboundLocalError")

\* `lebe in l`
Contains(l, lebe) ==
    \/ lebe = ":BE:" /\ l \in ContainsBE
    \/ lebe = ":LE:" /\ l \in ContainsLE

\* A filter that lets every candidate pass.
matched_any(l, lebe) == TRUE

\* The filter of compute_ghidra_language: l for l in langs if lebe in l
matched(l, lebe) == Contains(l, lebe)

\* A sort key that is the length alone.
sort_key_length(l) == StrLen[l]

\* The sort key of compute_ghidra_language:
\* lambda l: 0 if l.endswith(':default') else len(l)
sort_key(l) == IF l \in EndsWithDefault THEN 0 ELSE StrLen[l]

RECURSIVE InsertSorted(_, _)
InsertSorted(l, s) ==
    IF s = <<>> THEN <<l>>
    ELSE IF sort_key(l) < sort_key(Head(s)) THEN <<l>> \o s
    ELSE <<Head(s)>> \o InsertSorted(l, Tail(s))

\* sorted(..., key=...): stable, elements of equal key keep their order.
RECURSIVE sorted(_)
sorted(s) ==
    IF s = <<>> THEN <<>>
    ELSE InsertSorted(s[Len(s)], sorted(SubSeq(s, 1, Len(s) - 1)))

\* arch.compute_ghidra_language
compute_ghidra_language ==
    LET lang == get_convenience_variable("ghidra-language")
        arch == get_arch
        endian == get_endian
        lebe == IF endian = "big" THEN ":BE:" ELSE ":LE:"
        fallback == IF lebe = ":BE:" THEN "DATA:BE:64:default" ELSE "DATA:LE:64:default"
    IN IF lang # "auto" THEN lang
       ELSE IF arch \notin DOMAIN language_map THEN fallback
       ELSE LET langs == language_map[arch]
                matched_endian == sorted(SelectSeq(langs, LAMBDA l : matched(l, lebe)))
            IN IF Len(matched_endian) > 0 THEN matched_endian[1] ELSE fallback

\* arch.compute_ghidra_compiler
compute_ghidra_compiler(lang) ==
    LET comp == get_convenience_variable("ghidra-compiler")
    IN IF comp # "auto" THEN Returns(comp)
       ELSE IF lang \notin DOMAIN compiler_map THEN Returns("default")
       ELSE LET comp_map == compiler_map[lang]
                osabi == get_osabi
            IN IF osabi.raised # "ok" THEN osabi
               ELSE IF osabi.value \in DOMAIN comp_map THEN Returns(comp_map[osabi.value])
               ELSE IF NoneValue \in DOMAIN comp_map THEN Returns(comp_map[NoneValue])
               ELSE Returns("default")

\* arch.compute_ghidra_lcsp
compute_ghidra_lcsp ==
    LET lang == compute_ghidra_language
        comp == compute_ghidra_compiler(lang)
    IN [raised |-> comp.raised, lang |-> lang, comp |-> comp.value]

\* A space check that accepts every address.
same_space_any(address, defaultSpace) == TRUE

\* address.space == self.defaultSpace
same_space(address, defaultSpace) == address.space = defaultSpace

\* DefaultMemoryMapper.map
map(defaultSpace, proc, offset) ==
    [base |-> defaultSpace, address |-> [space |-> defaultSpace, offset |-> offset]]

\* DefaultMemoryMapper.map_back
map_back(defaultSpace, proc, address) ==
    IF same_space(address, defaultSpace) THEN [raised |-> "ok", offset |-> address.offset]
    ELSE [raised |-> "ValueError", offset |-> None]

(***************************************************************************)
(* The register mappers of arch.py.  A register name is the sequence of    *)
(* its characters, and None is the one-element sequence NoName.            *)
(***************************************************************************)
NoName == <<NoneValue>>

efl == <<"e", "f", "l">>
rflags == <<"r", "f", "l", "a", "g", "s">>
eflags == <<"e", "f", "l", "a", "g", "s">>
zmm == <<"z", "m", "m">>
ymm == <<"y", "m", "m">>
UNKNOWN == <<"U", "N", "K", "N", "O", "W", "N">>

\* n times b
Uniform(n, b) == [i \in 1..n |-> b]

\* str.startswith
startswith(name, prefix) ==
    Len(name) >= Len(prefix) /\ SubSeq(name, 1, Len(prefix)) = prefix

\* '{}'.format(name)
str(name) == IF name = NoName THEN <<"N", "o", "n", "e">> ELSE name

RegisterBytes == 8     \* value.to_bytes(8, "big")
YmmBytes == 32         \* rv.value[-32:]

\* int.to_bytes that keeps the low-order bytes of a value that does not fit.
to_bytes_wrapped(value, length) ==
    LET d == value.digits
        low == IF Len(d) > length THEN SubSeq(d, Len(d) - length + 1, Len(d)) ELSE d
    IN Returns([i \in 1..length |->
                   IF i <= length - Len(low) THEN 0 ELSE low[i - (length - Len(low))]])

\* value.to_bytes(length, "big"): only an int has the method; a negative int
\* and one of more than `length` bytes raise OverflowError.
to_bytes(value, length) ==
    IF value.type # "int" THEN Raises("AttributeError")
    ELSE IF value.sign < 0 \/ Len(value.digits) > length THEN Raises("OverflowError")
    ELSE LET d == value.digits
         IN Returns([i \in 1..length |->
                        IF i <= length - Len(d) THEN 0 ELSE d[i - (length - Len(d))]])

\* The mapper instances of the module.
Intel_x86_64_RegisterMapper == "Intel_x86_64_RegisterMapper"
DEFAULT_BE_REGISTER_MAPPER == "DEFAULT_BE_REGISTER_MAPPER"
DEFAULT_LE_REGISTER_MAPPER == "DEFAULT_LE_REGISTER_MAPPER"

RegisterMappers ==
    {Intel_x86_64_RegisterMapper, DEFAULT_BE_REGISTER_MAPPER, DEFAULT_LE_REGISTER_MAPPER}

DefaultRegisterMapper_map_name(self, proc, name) == name

\* The x86-64 map_name without its renames.
Intel_x86_64_RegisterMapper_map_name_plain(self, proc, name) ==
    DefaultRegisterMapper_map_name(self, proc, name)

Intel_x86_64_RegisterMapper_map_name(self, proc, name) ==
    IF name = NoName THEN UNKNOWN
    ELSE IF name = efl THEN rflags
    ELSE IF startswith(name, zmm) THEN ymm \o SubSeq(name, 4, Len(name))
    ELSE DefaultRegisterMapper_map_name(self, proc, name)

\* self.map_name, by the class of self
map_name(self, proc, name) ==
    IF self = Intel_x86_64_RegisterMapper
    THEN Intel_x86_64_RegisterMapper_map_name(self, proc, name)
    ELSE DefaultRegisterMapper_map_name(self, proc, name)

\* A RegVal, or the ValueError raised with its message.
RegVal(name, value) ==
    [raised |-> "ok", name |-> name, value |-> value, message |-> <<>>]

RaisesValueError(message) ==
    [raised |-> "ValueError", name |-> <<>>, value |-> <<>>, message |-> message]

DefaultRegisterMapper_map_value(self, proc, name, value) ==
    LET av == to_bytes(value, RegisterBytes)
    IN IF av.raised # "ok"
       THEN RaisesValueError(<<"Cannot convert ">> \o str(name) \o <<"'s value: ">>
                                 \o <<value.type>>)
       ELSE RegVal(map_name(self, proc, name), av.value)

Intel_x86_64_RegisterMapper_map_value(self, proc, name, value) ==
    LET truncated(rv) ==
            IF rv.raised # "ok" THEN rv
            ELSE IF startswith(rv.name, ymm) /\ Len(rv.value) > YmmBytes
            THEN RegVal(rv.name, SubSeq(rv.value, Len(rv.value) - YmmBytes + 1, Len(rv.value)))
            ELSE rv
    IN CHOOSE out \in {truncated(rv) :
                          rv \in {DefaultRegisterMapper_map_value(self, proc, name, value)}} : TRUE

map_value(self, proc, name, value) ==
    IF self = Intel_x86_64_RegisterMapper
    THEN Intel_x86_64_RegisterMapper_map_value(self, proc, name, value)
    ELSE DefaultRegisterMapper_map_value(self, proc, name, value)

DefaultRegisterMapper_map_name_back(self, proc, name) == name

\* The method returns only under its one condition: None otherwise.
Intel_x86_64_RegisterMapper_map_name_back(self, proc, name) ==
    IF name = rflags THEN eflags ELSE NoName

map_name_back(self, proc, name) ==
    IF self = Intel_x86_64_RegisterMapper
    THEN Intel_x86_64_RegisterMapper_map_name_back(self, proc, name)
    ELSE DefaultRegisterMapper_map_name_back(self, proc, name)

register_mappers == ("x86:LE:64:default" :> Intel_x86_64_RegisterMapper)

\* arch.compute_register_mapper: a language with neither tag reaches the
\* table lookup, which raises KeyError.
compute_register_mapper(lang) ==
    IF lang \notin DOMAIN register_mappers /\ Contains(lang, ":BE:")
    THEN Returns(DEFAULT_BE_REGISTER_MAPPER)
    ELSE IF lang \notin DOMAIN register_mappers /\ Contains(lang, ":LE:")
    THEN Returns(DEFAULT_LE_REGISTER_MAPPER)
    ELSE IF lang \in DOMAIN register_mappers THEN Returns(register_mappers[lang])
    ELSE Raises("KeyError")

(***************************************************************************)
(* Connection and trace lifecycle.                                         *)
(***************************************************************************)
ConnectAddresses == {"None", "host", "host:port", "host:x", "host:closed"}

ghidra_trace_connect ==
    /\ cmd' = "ghidra_trace_connect"
    /\ UNCHANGED <<execVars, archVars>>
    /\ pc = Idle
    /\ \E address \in ConnectAddresses :
        IF require_no_client_fails(State) THEN Raise("Already connected")
        ELSE IF address = "None" THEN Raise("missing required argument 'address'")
        ELSE IF address = "host" THEN Raise("address must be in the form 'host:port'")
        ELSE IF address = "host:x" THEN Raise("port must be numeric")
        ELSE IF address = "host:closed" THEN Raise("ConnectionRefusedError")
        ELSE /\ State' = [State EXCEPT !.client = TheClient]
             /\ err' = "ok"
             /\ did' = {} /\ reply' = NoReply /\ calls' = <<>>
             /\ UNCHANGED <<tracing, register_mapper, traceVars, utilVars, deviceVars, executing, withStack, pc>>

ListenAddresses == {"port", "host:port", "a:b:c", "host:x"}

ghidra_trace_listen ==
    /\ cmd' = "ghidra_trace_listen"
    /\ UNCHANGED <<execVars, archVars>>
    /\ pc = Idle
    /\ \E address \in ListenAddresses :
        IF require_no_client_fails(State) THEN Raise("Already connected")
        ELSE IF address = "a:b:c" THEN Raise("address must be 'port' or 'host:port'")
        ELSE IF address = "host:x" THEN Raise("port must be numeric")
        ELSE /\ State' = [State EXCEPT !.client = TheClient]
             /\ err' = "ok"
             /\ did' = {} /\ reply' = NoReply /\ calls' = <<>>
             /\ UNCHANGED <<tracing, register_mapper, traceVars, utilVars, deviceVars, executing, withStack, pc>>

\* Trace.close(), or the connection going away: the trace and what it held are gone.
TraceGone ==
    /\ openTxs' = {}
    /\ snap' = 0
    /\ store' = EmptyStore
    /\ nput' = 0

ghidra_trace_disconnect ==
    /\ cmd' = "ghidra_trace_disconnect"
    /\ UNCHANGED <<execVars, archVars>>
    /\ pc = Idle
    /\ IF require_client_fails(State) THEN Raise("Not connected")
       ELSE /\ State' = reset_client(State)
            /\ tracing' = "false"
            /\ register_mapper' = NoneValue
            /\ TraceGone
            /\ err' = "ok"
            /\ did' = {} /\ reply' = NoReply /\ calls' = <<>>
            /\ UNCHANGED <<utilVars, deviceVars, executing, withStack, pc>>

\* start_trace(name), entered with STATE.trace None or just reset.  fail names
\* the statement that raises: create_trace (or the language resolution before
\* it), reading schema.xml, or create_root_object inside its `with` block.
\* The new trace gets its register mapper right after create_trace; a
\* KeyError of compute_register_mapper leaves the trace without one.
StartFailures == {"none", "create_trace", "schema", "root"}

start_trace(S, fail) ==
    \E mapper \in {compute_register_mapper(compute_ghidra_language)} :
        /\ State' = IF fail = "create_trace" THEN S ELSE [S EXCEPT !.trace = TheTrace]
        /\ register_mapper' = IF fail = "create_trace" \/ mapper.raised # "ok" THEN NoneValue
                              ELSE mapper.value
        /\ tracing' = IF fail = "none" /\ mapper.raised = "ok" THEN "true" ELSE "false"
        /\ TraceGone
        /\ err' = IF fail = "none" /\ mapper.raised = "ok" THEN "ok" ELSE "start_trace failed"
        /\ did' = {} /\ reply' = NoReply /\ calls' = <<>>
        /\ UNCHANGED <<utilVars, deviceVars, executing, withStack, pc>>

ghidra_trace_start ==
    /\ cmd' = "ghidra_trace_start"
    /\ UNCHANGED <<execVars, archVars>>
    /\ pc = Idle
    /\ \E fail \in StartFailures :
        IF require_client_fails(State) THEN Raise("Not connected")
        ELSE IF require_no_trace_fails(State) THEN Raise("Trace already started")
        ELSE start_trace(State, fail)

ghidra_trace_stop ==
    /\ cmd' = "ghidra_trace_stop"
    /\ UNCHANGED <<execVars, archVars>>
    /\ pc = Idle
    /\ IF require_trace_fails(State) THEN Raise("No trace active")
       ELSE /\ State' = reset_trace(State)
            /\ tracing' = "false"
            /\ register_mapper' = NoneValue
            /\ TraceGone
            /\ err' = "ok"
            /\ did' = {} /\ reply' = NoReply /\ calls' = <<>>
            /\ UNCHANGED <<utilVars, deviceVars, executing, withStack, pc>>

ghidra_trace_restart ==
    /\ cmd' = "ghidra_trace_restart"
    /\ UNCHANGED <<execVars, archVars>>
    /\ pc = Idle
    /\ \E fail \in StartFailures :
        IF require_client_fails(State) THEN Raise("Not connected")
        ELSE start_trace(IF State.trace # None THEN reset_trace(State) ELSE State, fail)

(***************************************************************************)
(* Transactions.                                                           *)
(***************************************************************************)
\* tx.commit() or tx.abort() on transaction tx.
TxCall(op, tx) ==
    [call |-> op, base |-> "transaction", space |-> <<Fmt(tx)>>, values |-> <<>>,
     start |-> 0, end |-> 0]

ghidra_trace_txstart ==
    /\ cmd' = "ghidra_trace_txstart"
    /\ UNCHANGED <<execVars, archVars>>
    /\ pc = Idle
    /\ IF require_no_tx_fails(State) THEN Raise("Transaction already started")
       ELSE IF require_trace_fails(State) THEN Raise("No trace active")
       ELSE /\ CanStartTx
            /\ State' = [State EXCEPT !.tx = FreshTx]
            /\ openTxs' = openTxs \cup {FreshTx}
            /\ err' = "ok"
            /\ did' = {} /\ reply' = NoReply /\ calls' = <<>>
            /\ UNCHANGED <<tracing, register_mapper, snap, store, nput, utilVars, deviceVars,
                           executing, withStack, pc>>

ghidra_trace_txcommit ==
    /\ cmd' = "ghidra_trace_txcommit"
    /\ UNCHANGED <<execVars, archVars>>
    /\ pc = Idle
    /\ IF require_tx_fails(State) THEN Raise("No transaction")
       ELSE /\ openTxs' = openTxs \ {State.tx}
            /\ State' = reset_tx(State)
            /\ err' = "ok"
            /\ did' = {} /\ reply' = NoReply /\ calls' = <<TxCall("commit", State.tx)>>
            /\ UNCHANGED <<tracing, register_mapper, snap, store, nput, utilVars, deviceVars,
                           executing, withStack, pc>>

ghidra_trace_txabort ==
    /\ cmd' = "ghidra_trace_txabort"
    /\ UNCHANGED <<execVars, archVars>>
    /\ pc = Idle
    /\ IF require_tx_fails(State) THEN Raise("No transaction")
       ELSE /\ openTxs' = openTxs \ {State.tx}
            /\ State' = reset_tx(State)
            /\ err' = "ok"
            /\ did' = {} /\ reply' = NoReply /\ calls' = <<TxCall("abort", State.tx)>>
            /\ UNCHANGED <<tracing, register_mapper, snap, store, nput, utilVars, deviceVars,
                           executing, withStack, pc>>

\* open_tracked_tx, up to its yield: the `with` block of the caller is entered.
open_tracked_tx ==
    /\ cmd' = "open_tracked_tx"
    /\ UNCHANGED <<execVars, archVars>>
    /\ pc = Idle
    /\ Len(withStack) < MaxNest
    /\ IF require_trace_fails(State) THEN Raise("No trace active")
       ELSE /\ CanStartTx
            /\ openTxs' = openTxs \cup {FreshTx}
            /\ State' = [State EXCEPT !.tx = FreshTx]
            /\ withStack' = Append(withStack, FreshTx)
            /\ err' = "ok"
            /\ did' = {} /\ reply' = NoReply /\ calls' = <<>>
            /\ UNCHANGED <<tracing, register_mapper, snap, store, nput, utilVars, deviceVars, executing, pc>>

\* open_tracked_tx, from its yield on: the caller's block finishes, normally
\* or by raising.  The inner `with ... open_tx` commits or aborts its own
\* transaction either way; STATE.reset_tx() follows the inner block and is
\* reached only when nothing was raised.
open_tracked_tx_exit ==
    /\ cmd' = "open_tracked_tx_exit"
    /\ UNCHANGED <<execVars, archVars>>
    /\ pc = Idle
    /\ withStack # <<>>
    /\ \E raised \in BOOLEAN :
        /\ openTxs' = openTxs \ {withStack[Len(withStack)]}
        /\ withStack' = SubSeq(withStack, 1, Len(withStack) - 1)
        /\ State' = IF raised THEN State ELSE reset_tx(State)
        /\ err' = IF raised THEN "raised in with block" ELSE "ok"
        /\ did' = {} /\ reply' = NoReply /\ calls' = <<>>
        /\ UNCHANGED <<tracing, register_mapper, snap, store, nput, utilVars, deviceVars, executing, pc>>

ghidra_trace_new_snap ==
    /\ cmd' = "ghidra_trace_new_snap"
    /\ UNCHANGED <<execVars, archVars>>
    /\ pc = Idle
    /\ IF require_tx_fails(State) THEN Raise("No transaction")
       ELSE IF require_trace_fails(State) THEN Raise("No trace active")
       ELSE /\ snap < MaxSnap
            /\ snap' = snap + 1
            /\ err' = "ok"
            /\ did' = {} /\ reply' = NoReply /\ calls' = <<>>
            /\ UNCHANGED <<sessionVars, openTxs, store, nput, utilVars, deviceVars,
                           executing, withStack, pc>>

(***************************************************************************)
(* DbgExecutor: the running gate.                                          *)
(***************************************************************************)
state_execute ==
    /\ cmd' = "state_execute"
    /\ UNCHANGED <<execVars, archVars>>
    /\ ~executing
    /\ executing' = TRUE
    /\ UNCHANGED <<sessionVars, traceVars, utilVars, deviceVars, withStack, pc, err, did, reply, calls>>

state_break ==
    /\ cmd' = "state_break"
    /\ UNCHANGED <<execVars, archVars>>
    /\ executing
    /\ executing' = FALSE
    /\ UNCHANGED <<sessionVars, traceVars, utilVars, deviceVars, withStack, pc, err, did, reply, calls>>

(***************************************************************************)
(* Spawning and attaching.  dbg.spawn, dbg.attach and                      *)
(* dbg.enumerate_processes are wrapped by GhidraDbg.eng_thread: they are   *)
(* submitted to the executor, whose future is already failed with          *)
(* DebuggeeRunningException while the target runs.                         *)
(***************************************************************************)
PROCESS_KEY_PATTERN(pid) == Fmt(pid)

put_process(st, pid, s) ==
    LET ppath == PROCESS_PATTERN("local", pid)
        st1 == set_value(create_object(st, ppath), ppath, s, pid)
        st2 == insert(create_object(st1, Child(ppath, "Memory")), Child(ppath, "Memory"), s)
        st3 == insert(create_object(st2, Child(ppath, "Modules")), Child(ppath, "Modules"), s)
        st4 == insert(create_object(st3, Child(ppath, "Threads")), Child(ppath, "Threads"), s)
    IN insert(st4, ppath, s)

\* attach_by_pid / attach_by_name from the matching process on (the processes
\* have been enumerated, or the call is the one ghidra_trace_create ends with,
\* which enumerates first): dbg.attach,
\* then STATE.require_trace().open_tx(...), whose block is the next step.
AttachFound(pid) ==
    IF executing
    THEN /\ err' = "DebuggeeRunningException"
         /\ did' = {} /\ reply' = NoReply /\ calls' = <<>>
         /\ pc' = Idle
         /\ UNCHANGED <<sessionVars, openTxs, store, nput, utilVars, deviceVars,
                        executing, withStack>>
    ELSE /\ attached' = attached \cup {pid}
         /\ IF require_trace_fails(State)
            THEN /\ err' = "No trace active"
                 /\ did' = {"query"} /\ reply' = NoReply /\ calls' = <<>>
                 /\ pc' = Idle
                 /\ UNCHANGED openTxs
            ELSE /\ CanStartTx
                 /\ openTxs' = openTxs \cup {FreshTx}
                 /\ pc' = [at |-> "attach_tx", tx |-> FreshTx, pid |-> pid, attach |-> FALSE]
                 /\ err' = "ok"
                 /\ did' = {"query"} /\ reply' = NoReply /\ calls' = <<>>
         /\ UNCHANGED <<sessionVars, store, nput, utilVars, spawned, executing, withStack>>

NoSuchPid == MaxPid + 1

attach_by_pid ==
    /\ cmd' = "attach_by_pid"
    /\ UNCHANGED <<execVars, archVars>>
    /\ pc = Idle
    /\ \E pid \in Pids \cup {NoSuchPid} :
        IF executing THEN Raise("DebuggeeRunningException")
        ELSE IF pid \notin Pids
        THEN /\ err' = "ok"
             /\ did' = {"query"} /\ reply' = NoReply /\ calls' = <<>>
             /\ UNCHANGED allButErr
        ELSE AttachFound(pid) /\ UNCHANGED snap

attach_by_name ==
    /\ cmd' = "attach_by_name"
    /\ UNCHANGED <<execVars, archVars>>
    /\ pc = Idle
    /\ \E pid \in Pids \cup {NoSuchPid} :       \* the process of that name, if any
        IF executing THEN Raise("DebuggeeRunningException")
        ELSE IF pid \notin Pids
        THEN /\ err' = "UnboundLocalError"
             /\ did' = {"query"} /\ reply' = NoReply /\ calls' = <<>>
             /\ UNCHANGED allButErr
        ELSE AttachFound(pid) /\ UNCHANGED snap

\* The block of `with STATE.require_trace().open_tx('Attach By ...')`.
attach_tx_block ==
    /\ cmd' = "attach_tx_block"
    /\ UNCHANGED <<execVars, archVars>>
    /\ pc.at = "attach_tx"
    /\ store' = retain_values(put_process(store, pc.pid, snap), PROCESSES_PATH,
                              {PROCESS_KEY_PATTERN(pc.pid)}, snap)
    /\ processes' = processes \cup {pc.pid}
    /\ targets' = targets \cup {pc.pid}
    /\ openTxs' = openTxs \ {pc.tx}
    /\ pc' = Idle
    /\ err' = "ok"
    /\ did' = did \cup {"retain"} /\ reply' = NoReply /\ calls' = <<>>
    /\ UNCHANGED <<sessionVars, snap, nput, current_state, deviceVars, executing, withStack>>

ghidra_trace_create ==
    /\ cmd' = "ghidra_trace_create"
    /\ UNCHANGED <<execVars, archVars>>
    /\ pc = Idle
    /\ \E pid \in Pids, attach \in BOOLEAN :
        IF executing THEN Raise("DebuggeeRunningException")
        ELSE /\ spawned' = spawned \cup {pid}
             /\ current_state' = [current_state EXCEPT !.pid = pid]
             /\ IF require_trace_fails(State)
                THEN /\ err' = "No trace active"
                     /\ did' = {} /\ reply' = NoReply /\ calls' = <<>>
                     /\ UNCHANGED <<openTxs, pc>>
                ELSE /\ CanStartTx
                     /\ snap < MaxSnap
                     /\ openTxs' = openTxs \cup {FreshTx}
                     /\ pc' = [at |-> "create_tx", tx |-> FreshTx, pid |-> pid, attach |-> attach]
                     /\ err' = "ok"
                     /\ did' = {} /\ reply' = NoReply /\ calls' = <<>>
             /\ UNCHANGED <<sessionVars, snap, store, nput, processes, targets,
                            attached, executing, withStack>>

\* The block of `with ... open_tx('Initial Snap')`: the snapshot, then the
\* commit on leaving the block.
create_tx_block ==
    /\ cmd' = "create_tx_block"
    /\ UNCHANGED <<execVars, archVars>>
    /\ pc.at = "create_tx"
    /\ snap' = snap + 1
    /\ openTxs' = openTxs \ {pc.tx}
    /\ pc' = IF pc.attach
             THEN [at |-> "attach_call", tx |-> None, pid |-> pc.pid, attach |-> FALSE]
             ELSE Idle
    /\ err' = "ok"
    /\ did' = {} /\ reply' = NoReply /\ calls' = <<>>
    /\ UNCHANGED <<sessionVars, store, nput, utilVars, deviceVars, executing, withStack>>

\* `return attach_by_pid(pid)` at the end of ghidra_trace_create: the spawned
\* process is among the enumerated ones.
create_attach_by_pid ==
    /\ cmd' = "create_attach_by_pid"
    /\ UNCHANGED <<execVars, archVars>>
    /\ pc.at = "attach_call"
    /\ AttachFound(pc.pid)
    /\ UNCHANGED snap

(***************************************************************************)
(* Scripted queries.  A reply is what the script's message handler is      *)
(* called with: a 'send' message whose JSON payload carries the value (a   *)
(* list of records) and the echoed data, an 'error' message (it has a      *)
(* description and no payload), a message without payload, None, or        *)
(* nothing at all ("silent": the handler is never called).                 *)
(*                                                                         *)
(* A record is well formed ("ok"), lacks a field its handler reads first   *)
(* ("missing"), or carries a base address that int(base, 0) rejects        *)
(* ("unparseable").  key is the field the element key is formatted from,   *)
(* val stands for the remaining fields.                                    *)
(***************************************************************************)
Records ==
    [kind : {"ok"}, key : Keys, val : Vals]
        \cup [kind : {"unparseable"}, key : Keys, val : {1}]
        \cup [kind : {"missing"}, key : {1}, val : {1}]

RecSeqs(n) == UNION {[1..m -> Records] : m \in 0..n}

FailureTypes == {"error", "nopayload", "None", "silent"}

Replies(n) ==
    [type : {"send"}, value : RecSeqs(n)]
        \cup [type : FailureTypes, value : {<<>>}]

\* get_values_from_callback: {} for None, an error or a message without
\* payload; iterating over {} visits nothing.
get_values_from_callback(message) ==
    IF message.type = "None" THEN <<>>
    ELSE IF message.type = "error" THEN <<>>
    ELSE IF message.type = "nopayload" THEN <<>>
    ELSE message.value

\* get_data_from_callback: {} for None or a message without payload, which
\* str.format renders as '{}'; else the data handed to run_script_with_data.
get_data_from_callback(message, data) ==
    IF message.type \in {"None", "error", "nopayload"} THEN "{}" ELSE data

ATTRIBUTES_PATH(sid) == Child(SESSION_PATTERN(sid), "Attributes")

AVAILABLES_PATH == <<"Sessions", "{sid}", "Available">>          \* unformatted

AVAILABLE_PATTERN(sid, pid) == Elem(Child(SESSION_PATTERN(sid), "Available"), Fmt(pid))

APPLICATIONS_PATH == <<"Sessions", "{sid}", "Applications">>     \* unformatted

APPLICATION_PATTERN(sid, pid) == Elem(Child(SESSION_PATTERN(sid), "Applications"), Fmt(pid))

ENV_PATTERN(sid) == Child(SESSION_PATTERN(sid), "Environment")

REGIONS_PATTERN(sid, pid) == Child(PROCESS_PATTERN(sid, pid), "Memory")

KREGIONS_PATTERN(sid) == Child(SESSION_PATTERN(sid), "Memory")

HEAP_PATTERN(sid, pid) == Child(PROCESS_PATTERN(sid, pid), "Heap")

KMODULES_PATTERN(sid) == Child(SESSION_PATTERN(sid), "Modules")

CLASSES_PATTERN(sid, pid) == Child(PROCESS_PATTERN(sid, pid), "Classes")

CLASS_PATTERN(sid, pid, path) == Elem(CLASSES_PATTERN(sid, pid), path)

METHODS_PATTERN(sid, pid, path) == Child(CLASS_PATTERN(sid, pid, path), "Methods")

LOADERS_PATTERN(sid, pid) == Child(PROCESS_PATTERN(sid, pid), "ClassLoaders")

MODULES_PATTERN(sid, pid) == Child(PROCESS_PATTERN(sid, pid), "Modules")

MODULE_PATTERN(sid, pid, modpath) == Elem(MODULES_PATTERN(sid, pid), modpath)

SECTIONS_PATTERN(sid, pid, modpath) == Child(MODULE_PATTERN(sid, pid, modpath), "Sections")

IMPORTS_PATTERN(sid, pid, modpath) == Child(MODULE_PATTERN(sid, pid, modpath), "Imports")

EXPORTS_PATTERN(sid, pid, modpath) == Child(MODULE_PATTERN(sid, pid, modpath), "Exports")

SYMBOLS_PATTERN(sid, pid, modpath) == Child(MODULE_PATTERN(sid, pid, modpath), "Symbols")

DEPENDENCIES_PATTERN(sid, pid, modpath) == Child(MODULE_PATTERN(sid, pid, modpath), "Dependencies")

THREADS_PATTERN(sid, pid) == Child(PROCESS_PATTERN(sid, pid), "Threads")

THREAD_PATTERN(sid, pid, tid) == Elem(THREADS_PATTERN(sid, pid), Fmt(tid))

FRAMES_PATTERN(sid, pid, tid) == Child(THREAD_PATTERN(sid, pid, tid), "Stack")

REGS_PATTERN(sid, pid, tid) == Child(THREAD_PATTERN(sid, pid, tid), "Registers")

(***************************************************************************)
(* The message handlers.  A handler's run is the record                    *)
(*   st: the object tree, cs: util.current_state, keys: its local `keys`,  *)
(*   i: its running index, raised: the exception that ended it ("ok":      *)
(*   none), retained: the key set handed to retain_values, if it got there, *)
(*   calls: its calls on the trace's register spaces                       *)
(* and each *_record operator is one pass through the handler's loop.      *)
(***************************************************************************)
\* Run with the running index carried on from what the tree already holds.
Run_index_kept(st, cs) ==
    [st |-> st, cs |-> cs, keys |-> {}, i |-> Cardinality(DOMAIN st), raised |-> "ok",
     retained |-> FALSE, calls |-> <<>>]

Run(st, cs) ==
    [st |-> st, cs |-> cs, keys |-> {}, i |-> 0, raised |-> "ok",
     retained |-> FALSE, calls |-> <<>>]

\* The fields written for an object whose display carries an index or address i.
Display(i, v) == 10 * i + v

\* One pass of a loop that reads its fields, creates the object, appends the
\* key, maps the base address, sets the values and inserts.
put_range_record(a, r, s, container) ==
    IF r.kind = "missing" THEN [a EXCEPT !.raised = "KeyError"]
    ELSE LET path == Elem(container, Fmt(r.key))
             a1 == [a EXCEPT !.st = create_object(@, path), !.keys = @ \cup {Fmt(r.key)}]
         IN IF r.kind = "unparseable" THEN [a1 EXCEPT !.raised = "ValueError"]
            ELSE [a1 EXCEPT !.st = insert(set_value(@, path, s, r.val), path, s)]

\* One pass of a loop that maps no address: every present record is written.
put_named_record(a, r, s, container) ==
    IF r.kind = "missing" THEN [a EXCEPT !.raised = "KeyError"]
    ELSE LET path == Elem(container, Fmt(r.key))
         IN [a EXCEPT !.st = insert(set_value(create_object(@, path), path, s, r.val), path, s),
                      !.keys = @ \cup {Fmt(r.key)}]

put_regions_record(a, r, s) ==
    put_range_record(a, r, s, REGIONS_PATTERN(a.cs.sid, a.cs.pid))

put_sections_record(a, r, s, cbdata) ==
    put_range_record(a, r, s, SECTIONS_PATTERN(a.cs.sid, a.cs.pid, cbdata))

put_imports_record(a, r, s, cbdata) ==
    put_named_record(a, r, s, IMPORTS_PATTERN(a.cs.sid, a.cs.pid, cbdata))

put_exports_record(a, r, s, cbdata) ==
    put_named_record(a, r, s, EXPORTS_PATTERN(a.cs.sid, a.cs.pid, cbdata))

put_symbols_record(a, r, s, cbdata) ==
    put_named_record(a, r, s, SYMBOLS_PATTERN(a.cs.sid, a.cs.pid, cbdata))

put_dependencies_record(a, r, s, cbdata) ==
    put_named_record(a, r, s, DEPENDENCIES_PATTERN(a.cs.sid, a.cs.pid, cbdata))

\* The child containers without the last.
ModuleChildren_few == <<"Sections", "Exports", "Imports", "Symbols">>

ModuleChildren == <<"Sections", "Exports", "Imports", "Symbols", "Dependencies">>

RECURSIVE InsertChildren(_, _, _, _)
InsertChildren(st, path, names, s) ==
    IF names = <<>> THEN st
    ELSE InsertChildren(insert(create_object(st, Child(path, Head(names))),
                               Child(path, Head(names)), s),
                        path, Tail(names), s)

put_modules_record(a, r, s) ==
    IF r.kind = "missing" THEN [a EXCEPT !.raised = "KeyError"]
    ELSE LET mpath == MODULE_PATTERN(a.cs.sid, a.cs.pid, Fmt(r.key))
             a1 == [a EXCEPT !.st = create_object(@, mpath), !.keys = @ \cup {Fmt(r.key)}]
         IN IF r.kind = "unparseable" THEN [a1 EXCEPT !.raised = "ValueError"]
            ELSE [a1 EXCEPT !.st = InsertChildren(insert(set_value(@, mpath, s, r.val), mpath, s),
                                                  mpath, ModuleChildren, s)]

\* The overlay spaces and the register values of the trace are kept in the
\* store under their own roots: the entry of a space counts the spaces of
\* that base and name, the entry of a register bank holds the values
\* written at a snapshot.
OverlaySpace(base, name) == <<"<overlay>", base>> \o name

RegisterBank(space) == <<"<registers>">> \o space

\* Trace.create_overlay_space creating one more space each time.
create_overlay_space_again(st, base, name) ==
    LET p == OverlaySpace(base, name)
    IN IF p \in DOMAIN st THEN [st EXCEPT ![p].val = [n \in Snaps |-> @[n] + 1]]
       ELSE (p :> [life |-> Snaps, val |-> [n \in Snaps |-> 1]]) @@ st

\* Trace.create_overlay_space: a space that exists already is left as it is.
create_overlay_space(st, base, name) ==
    LET p == OverlaySpace(base, name)
    IN IF p \in DOMAIN st THEN st
       ELSE (p :> [life |-> Snaps, val |-> [n \in Snaps |-> 1]]) @@ st

\* Trace.put_registers(space, values): the values of the space from the
\* current snapshot on.
put_registers(st, space, values, s) ==
    LET p == RegisterBank(space)
        st1 == IF p \in DOMAIN st THEN st
               ELSE (p :> [life |-> {}, val |-> [n \in Snaps |-> <<>>]]) @@ st
    IN [st1 EXCEPT ![p].life = @ \cup From(s),
                   ![p].val = [n \in Snaps |-> IF n >= s THEN values ELSE @[n]]]

CreateOverlayCall(base, space) ==
    [call |-> "create_overlay_space", base |-> base, space |-> space, values |-> <<>>,
     start |-> 0, end |-> 0]

PutRegistersCall(space, values) ==
    [call |-> "put_registers", base |-> "", space |-> space, values |-> values,
     start |-> 0, end |-> 0]

\* A register's text is the sequence of its characters.
HexValue ==
    "0" :> 0 @@ "1" :> 1 @@ "2" :> 2 @@ "3" :> 3 @@ "4" :> 4 @@ "5" :> 5 @@ "6" :> 6 @@
    "7" :> 7 @@ "8" :> 8 @@ "9" :> 9 @@ "a" :> 10 @@ "b" :> 11 @@ "c" :> 12 @@ "d" :> 13 @@
    "e" :> 14 @@ "f" :> 15

RECURSIVE StripZeros(_)
StripZeros(d) == IF d = <<>> \/ d[1] # 0 THEN d ELSE StripZeros(Tail(d))

\* int(rval, 0) for a text in hexadecimal ('0x...', possibly after '-') and
\* for a text that is no number at all, the texts a context carries here:
\* the int, or ValueError.
int(rval) ==
    LET number(negative, digits) ==
            [type |-> "int", sign |-> IF negative /\ digits # <<>> THEN -1 ELSE 1,
             digits |-> digits]
        bytes(even) ==
            StripZeros([i \in 1..(Len(even) \div 2) |-> 16 * even[2 * i - 1] + even[2 * i]])
        padded(hex) == IF Len(hex) % 2 = 1 THEN <<0>> \o hex ELSE hex
        parsed(negative, body) ==
            IF \/ Len(body) < 3
               \/ body[1] # "0" \/ body[2] # "x"
               \/ \E i \in 3..Len(body) : body[i] \notin DOMAIN HexValue
            THEN Raises("ValueError")
            ELSE CHOOSE n \in
                     {Returns(number(negative, digits)) :
                         digits \in {bytes(even) :
                             even \in {padded(hex) :
                                 hex \in {[i \in 1..(Len(body) - 2) |-> HexValue[body[i + 2]]]}}}}
                     : TRUE
    IN CHOOSE n \in {parsed(Len(text) >= 1 /\ text[1] = "-",
                            IF Len(text) >= 1 /\ text[1] = "-" THEN Tail(text) ELSE text) :
                        text \in {rval}} : TRUE

\* The 'context' of a thread record, by the thread's id: every register
\* converts; three registers in the middle do not (no number, a negative
\* one, one of more than 8 bytes); none converts.
Context(r) ==
    CASE r.key % 3 = 1 ->
            <<[name |-> <<"r", "a", "x">>, rval |-> <<"0", "x", "2", "a">>],
              [name |-> efl, rval |-> <<"0", "x", "2", "4", "6">>]>>
      [] r.key % 3 = 2 ->
            <<[name |-> <<"r", "a", "x">>, rval |-> <<"0", "x", "2", "a">>],
              [name |-> <<"r", "i", "p">>, rval |-> <<>>],
              [name |-> <<"r", "s", "p">>, rval |-> <<"-", "0", "x", "1">>],
              [name |-> <<"z", "m", "m", "3">>,
               rval |-> <<"0", "x", "1">> \o Uniform(2 * RegisterBytes, "0")],
              [name |-> efl, rval |-> <<"0", "x", "2", "4", "6">>]>>
      [] OTHER ->
            <<[name |-> <<"r", "i", "p">>, rval |-> <<"n", "u", "l", "l">>]>>

\* The loop over the context's registers with the first failed conversion
\* ending it.
RECURSIVE RegisterValues_aborted(_, _, _)
RegisterValues_aborted(mapper, pid, context) ==
    IF context = <<>> THEN <<>>
    ELSE LET converted(e, v) ==
                 IF v.raised = "ok" THEN map_value(mapper, pid, e.name, v.value)
                 ELSE RaisesValueError(<<>>)
             rest(rv) ==
                 IF rv.raised # "ok" THEN <<>>
                 ELSE <<[name |-> rv.name, value |-> rv.value]>>
                          \o RegisterValues_aborted(mapper, pid, Tail(context))
         IN CHOOSE values \in
                {rest(rv) : rv \in {converted(e, v) : e \in {Head(context)},
                                                      v \in {int(Head(context).rval)}}} : TRUE

\* The loop over the context's registers: `values` gets the RegVal of each
\* register whose int() and map_value succeed; the exception of another is
\* caught inside the loop.
RECURSIVE RegisterValues(_, _, _)
RegisterValues(mapper, pid, context) ==
    IF context = <<>> THEN <<>>
    ELSE LET converted(e, v) ==
                 IF v.raised = "ok" THEN map_value(mapper, pid, e.name, v.value)
                 ELSE RaisesValueError(<<>>)
             value(rv) ==
                 IF rv.raised # "ok" THEN <<>> ELSE <<[name |-> rv.name, value |-> rv.value]>>
         IN CHOOSE values \in
                {value(rv) \o RegisterValues(mapper, pid, Tail(context)) :
                    rv \in {converted(e, v) : e \in {Head(context)},
                                              v \in {int(Head(context).rval)}}} : TRUE

\* A selection that forgets the thread it is given.
select_thread_skipped(cs, id) == cs

\* util.select_thread
select_thread(cs, id) == [cs EXCEPT !.tid = id]

\* A thread record: 'id' is read and selected before the other fields are
\* read; the overlay space is created before the registers object, and the
\* values that convert are put before the Stack is inserted.
put_threads_record(a, r, s) ==
    IF r.kind = "missing" THEN [a EXCEPT !.raised = "KeyError"]
    ELSE IF r.kind = "unparseable"           \* the record has no 'context'
    THEN [a EXCEPT !.cs = select_thread(@, r.key), !.raised = "KeyError"]
    ELSE LET inserted(st, tpath) ==
                 insert(set_value(create_object(st, tpath), tpath, s, Display(a.i, r.val)),
                        tpath, s)
             registers(st, space) ==
                 set_value(insert(create_object(create_overlay_space(st, "register", space),
                                                space),
                                  space, s),
                           space, s, r.val)
             stack(st, path) == insert(create_object(st, path), path, s)
             written(tpath, space, values) ==
                 CHOOSE st4 \in
                     {stack(st3, Child(tpath, "Stack")) :
                         st3 \in {put_registers(st2, space, values, s) :
                                     st2 \in {registers(st1, space) :
                                                 st1 \in {inserted(a.st, tpath)}}}} : TRUE
         IN CHOOSE a1 \in
                {[a EXCEPT !.cs = select_thread(@, r.key),
                           !.st = written(tpath, space, values),
                           !.keys = @ \cup {Fmt(r.key)},
                           !.i = @ + 1,
                           !.calls = @ \o <<CreateOverlayCall("register", space),
                                            PutRegistersCall(space, values)>>] :
                    tpath \in {THREAD_PATTERN(a.cs.sid, a.cs.pid, r.key)},
                    space \in {REGS_PATTERN(a.cs.sid, a.cs.pid, r.key)},
                    values \in {RegisterValues(mapper, a.cs.pid, Context(r)) :
                                   mapper \in {register_mapper}}} : TRUE

\* A frame's key is its level, the running index of the loop.
put_frames_record(a, r, s) ==
    IF r.kind = "missing" THEN [a EXCEPT !.raised = "KeyError"]
    ELSE LET fpath == Elem(FRAMES_PATTERN(a.cs.sid, a.cs.pid, a.cs.tid), Fmt(a.i))
             a1 == [a EXCEPT !.st = create_object(@, fpath), !.keys = @ \cup {Fmt(a.i)}]
         IN IF r.kind = "unparseable" THEN [a1 EXCEPT !.raised = "ValueError"]
            ELSE [a1 EXCEPT !.st = insert(set_value(@, fpath, s, Display(r.key, r.val)), fpath, s),
                            !.i = @ + 1]

put_kregions_record(a, r, s) ==
    put_range_record(a, r, s, KREGIONS_PATTERN(a.cs.sid))

\* The key is the module's name; no child container is inserted.
put_kmodules_record(a, r, s) ==
    put_range_record(a, r, s, KMODULES_PATTERN(a.cs.sid))

\* HEAP_REGION_PATTERN.format(sid=sid, start=base) names no pid: str.format
\* raises KeyError for every record, after the record's fields were read.
put_heap_record(a, r, s) == [a EXCEPT !.raised = "KeyError"]

\* The methods a class record lists.
Methods(r) == {Fmt(k) : k \in 1..(r.val - 1)}

RECURSIVE InsertAll(_, _, _, _)
InsertAll(st, container, keys, s) ==
    IF keys = {} THEN st
    ELSE LET k == CHOOSE x \in keys : TRUE
         IN InsertAll(insert(create_object(st, Elem(container, k)), Elem(container, k), s),
                      container, keys \ {k}, s)

\* A class record: the key is its path, else its name, else None; every field
\* is optional.  Method keys are appended to `keys`, and the Methods container
\* is retained with `mkeys`, which stays empty.
put_loaded_classes_record(a, r, s) ==
    LET key == IF r.kind = "missing" THEN "None" ELSE Fmt(r.key)
        cpath == CLASS_PATTERN(a.cs.sid, a.cs.pid, key)
        mcont == METHODS_PATTERN(a.cs.sid, a.cs.pid, key)
        st1 == insert(set_value(create_object(a.st, cpath), cpath, s, r.val), cpath, s)
        st2 == retain_values(InsertAll(st1, mcont, Methods(r), s), mcont, {}, s)
    IN [a EXCEPT !.st = IF r.kind = "missing" THEN st1 ELSE st2,
                 !.keys = @ \cup {key} \cup (IF r.kind = "missing" THEN {} ELSE Methods(r))]

\* LOADER_KEY_PATTERN.format(path=key): `key` is not defined in the handler.
put_class_loaders_record(a, r, s) ==
    [a EXCEPT !.st = create_object(@, Elem(LOADERS_PATTERN(a.cs.sid, a.cs.pid), Fmt(r.key))),
              !.raised = "NameError"]

Categories ==
    {"regions", "modules", "sections", "imports", "exports", "symbols",
     "dependencies", "threads", "frames"}

OtherCategories == {"kregions", "kmodules", "heap", "classes", "loaders"}

DataCategories == {"sections", "imports", "exports", "symbols", "dependencies"}

put_record(cat, a, r, s, cbdata) ==
    CASE cat = "regions" -> put_regions_record(a, r, s)
      [] cat = "modules" -> put_modules_record(a, r, s)
      [] cat = "sections" -> put_sections_record(a, r, s, cbdata)
      [] cat = "imports" -> put_imports_record(a, r, s, cbdata)
      [] cat = "exports" -> put_exports_record(a, r, s, cbdata)
      [] cat = "symbols" -> put_symbols_record(a, r, s, cbdata)
      [] cat = "dependencies" -> put_dependencies_record(a, r, s, cbdata)
      [] cat = "threads" -> put_threads_record(a, r, s)
      [] cat = "frames" -> put_frames_record(a, r, s)
      [] cat = "kregions" -> put_kregions_record(a, r, s)
      [] cat = "kmodules" -> put_kmodules_record(a, r, s)
      [] cat = "heap" -> put_heap_record(a, r, s)
      [] cat = "classes" -> put_loaded_classes_record(a, r, s)
      [] cat = "loaders" -> put_class_loaders_record(a, r, s)

\* `for r in values:`; an exception leaves the loop and the handler.
RECURSIVE ForEach(_, _, _, _, _)
ForEach(cat, a, values, s, cbdata) ==
    IF values = <<>> \/ a.raised # "ok" THEN a
    ELSE CHOOSE done \in {ForEach(cat, a1, Tail(values), s, cbdata) :
                              a1 \in {put_record(cat, a, Head(values), s, cbdata)}} : TRUE

\* Retain with the statement after the loop left out.
Retain_omitted(a, container, s) == a

\* The statement after the loop: proxy_object_path(container).retain_values(keys).
Retain(a, container, s) ==
    IF a.raised # "ok" THEN a
    ELSE [a EXCEPT !.st = retain_values(@, container, a.keys, s), !.retained = TRUE]

put_regions_callback(st, cs, s, message) ==
    Retain(ForEach("regions", Run(st, cs), get_values_from_callback(message), s, ""),
           REGIONS_PATTERN(cs.sid, cs.pid), s)

put_modules_callback(st, cs, s, message) ==
    Retain(ForEach("modules", Run(st, cs), get_values_from_callback(message), s, ""),
           MODULES_PATTERN(cs.sid, cs.pid), s)

put_sections_callback(st, cs, s, message, data) ==
    LET cbdata == get_data_from_callback(message, data)
    IN Retain(ForEach("sections", Run(st, cs), get_values_from_callback(message), s, cbdata),
              SECTIONS_PATTERN(cs.sid, cs.pid, cbdata), s)

put_imports_callback(st, cs, s, message, data) ==
    LET cbdata == get_data_from_callback(message, data)
    IN Retain(ForEach("imports", Run(st, cs), get_values_from_callback(message), s, cbdata),
              IMPORTS_PATTERN(cs.sid, cs.pid, cbdata), s)

put_exports_callback(st, cs, s, message, data) ==
    LET cbdata == get_data_from_callback(message, data)
    IN Retain(ForEach("exports", Run(st, cs), get_values_from_callback(message), s, cbdata),
              EXPORTS_PATTERN(cs.sid, cs.pid, cbdata), s)

put_symbols_callback(st, cs, s, message, data) ==
    LET cbdata == get_data_from_callback(message, data)
    IN Retain(ForEach("symbols", Run(st, cs), get_values_from_callback(message), s, cbdata),
              SYMBOLS_PATTERN(cs.sid, cs.pid, cbdata), s)

put_dependencies_callback(st, cs, s, message, data) ==
    LET cbdata == get_data_from_callback(message, data)
    IN Retain(ForEach("dependencies", Run(st, cs), get_values_from_callback(message), s, cbdata),
              DEPENDENCIES_PATTERN(cs.sid, cs.pid, cbdata), s)

put_threads_callback(st, cs, s, message) ==
    Retain(ForEach("threads", Run(st, cs), get_values_from_callback(message), s, ""),
           THREADS_PATTERN(cs.sid, cs.pid), s)

\* The thread is the one selected when the handler starts.
put_frames_callback(st, cs, s, message) ==
    Retain(ForEach("frames", Run(st, cs), get_values_from_callback(message), s, ""),
           FRAMES_PATTERN(cs.sid, cs.pid, cs.tid), s)

put_kregions_callback(st, cs, s, message) ==
    Retain(ForEach("kregions", Run(st, cs), get_values_from_callback(message), s, ""),
           KREGIONS_PATTERN(cs.sid), s)

put_kmodules_callback(st, cs, s, message) ==
    Retain(ForEach("kmodules", Run(st, cs), get_values_from_callback(message), s, ""),
           KMODULES_PATTERN(cs.sid), s)

put_heap_callback(st, cs, s, message) ==
    Retain(ForEach("heap", Run(st, cs), get_values_from_callback(message), s, ""),
           HEAP_PATTERN(cs.sid, cs.pid), s)

put_loaded_classes_callback(st, cs, s, message) ==
    Retain(ForEach("classes", Run(st, cs), get_values_from_callback(message), s, ""),
           CLASSES_PATTERN(cs.sid, cs.pid), s)

put_class_loaders_callback(st, cs, s, message) ==
    Retain(ForEach("loaders", Run(st, cs), get_values_from_callback(message), s, ""),
           LOADERS_PATTERN(cs.sid, cs.pid), s)

\* The attributes object is created and inserted whatever the reply is; its
\* values are those of the reply's dictionary (none for {}).
put_session_attributes_callback(st, cs, s, message) ==
    LET values == get_values_from_callback(message)
        apath == ATTRIBUTES_PATH(cs.sid)
        st1 == create_object(st, apath)
        st2 == IF values = <<>> THEN st1 ELSE set_value(st1, apath, s, values[1].val)
    IN [Run(st, cs) EXCEPT !.st = insert(st2, apath, s)]

\* put_reg_callback: the record of the selected thread, if the enumeration
\* has one ("missing": no 'id'; "unparseable": no 'context'); its registers
\* object is created, inserted and given the values.
RECURSIVE FindThread(_, _, _)
FindThread(values, tid, i) ==
    IF i > Len(values) THEN 0
    ELSE IF values[i].kind = "missing" THEN -1
    ELSE IF values[i].key = tid THEN i
    ELSE FindThread(values, tid, i + 1)

put_reg_callback(st, cs, s, message) ==
    LET values == get_values_from_callback(message)
        i == FindThread(values, cs.tid, 1)
        space == REGS_PATTERN(cs.sid, cs.pid, cs.tid)
    IN IF i = 0 THEN Run(st, cs)
       ELSE IF i = -1 \/ values[i].kind = "unparseable"
       THEN [Run(st, cs) EXCEPT !.raised = "KeyError"]
       ELSE LET registers(st0) ==
                    set_value(insert(create_object(create_overlay_space(st0, "register", space),
                                                   space),
                                     space, s),
                              space, s, values[i].val)
            IN CHOOSE a1 \in
                   {[Run(st, cs) EXCEPT
                        !.st = CHOOSE st2 \in {put_registers(st1, space, regvals, s) :
                                                  st1 \in {registers(st)}} : TRUE,
                        !.calls = <<CreateOverlayCall("register", space),
                                    PutRegistersCall(space, regvals)>>] :
                       regvals \in {RegisterValues(mapper, cs.pid, Context(values[i])) :
                                       mapper \in {register_mapper}}} : TRUE

(***************************************************************************)
(* Memory.  The trace keeps a state per address and snapshot; the model    *)
(* keeps it per page, under the address space's name: the entry at         *)
(* <<"ram", page>> holds the state code set from a snapshot on.            *)
(***************************************************************************)
PAGE_SIZE == 4096

quantize_pages(start, end) ==
    <<(start \div PAGE_SIZE) * PAGE_SIZE,
      ((end + PAGE_SIZE - 1) \div PAGE_SIZE) * PAGE_SIZE>>

\* eval_range for an address and a length that parse: start, start + length.
eval_range(address, length) == <<address, address + length>>

MemoryStates == {"unknown", "known", "error"}

StateCode(state) ==
    CASE state = "known" -> 1 [] state = "error" -> 2 [] state = "unknown" -> 3

\* The pages that meet [start, end).
PagesOf(start, end) ==
    {p \in 0..(end \div PAGE_SIZE) : p * PAGE_SIZE < end /\ (p + 1) * PAGE_SIZE > start}

MemPath(space, p) == <<space, Fmt(p)>>

\* set_memory_state / put_bytes / delete_bytes over a range, at snapshot s.
SetPages(st, space, pages, s, code) ==
    LET paths == {MemPath(space, p) : p \in pages}
    IN [q \in DOMAIN st \cup paths |->
          IF q \in paths
          THEN [life |-> {},
                val |-> [n \in Snaps |->
                           IF n >= s THEN code
                           ELSE IF q \in DOMAIN st THEN st[q].val[n] ELSE None]]
          ELSE st[q]]

\* A call on the bytes [start, end) of the address space "ram": the scripted
\* call of putmem(address, length) itself, put_bytes, set_memory_state.
MemCall(op, start, end) ==
    [call |-> op, base |-> "ram", space |-> <<>>, values |-> <<>>, start |-> start, end |-> end]

\* putmem_state past validate_state, for arguments that parse.
putmem_state_range(address, length, pages) ==
    LET r == eval_range(address, length)
    IN IF pages THEN quantize_pages(r[1], r[2]) ELSE r

\* put_mem_callback.  data carries the address handed to run_script_with_data
\* and the globals last_address and last_length that putmem has just set.  A
\* failed reply ({} is a dict) marks memory as 'error' through
\* putmem_state(last_address, last_address + last_length, 'error'); a hexdump
\* of well-formed lines holds the bytes read, last_length of them, and
\* put_bytes writes them at the address.
put_mem_callback(st, cs, s, message, data) ==
    LET values == get_values_from_callback(message)
        failed == message.type \in {"None", "error", "nopayload"}
        marked(er) ==
            [Run(st, cs) EXCEPT
                !.st = SetPages(st, "ram", PagesOf(er[1], er[2]), s, StateCode("error")),
                !.calls = <<MemCall("set_memory_state", er[1], er[2])>>]
        written(start, end) ==
            [Run(st, cs) EXCEPT
                !.st = SetPages(st, "ram", PagesOf(start, end), s, StateCode("known")),
                !.calls = <<MemCall("put_bytes", start, end)>>]
    IN IF State.trace = None THEN [Run(st, cs) EXCEPT !.raised = "No trace active"]
       ELSE IF failed
       THEN marked(putmem_state_range(data.last_address,
                                      data.last_address + data.last_length, TRUE))
       ELSE IF values = <<>> \/ \E i \in 1..Len(values) : values[i].kind # "ok"
       THEN [Run(st, cs) EXCEPT !.raised = "ValueError"]
       ELSE written(data.address, data.address + data.last_length)

\* The handler each put_<category> hands to run_script / run_script_with_data.
Callback(cat, st, cs, s, message, data) ==
    CASE cat = "regions" -> put_regions_callback(st, cs, s, message)
      [] cat = "modules" -> put_modules_callback(st, cs, s, message)
      [] cat = "sections" -> put_sections_callback(st, cs, s, message, data)
      [] cat = "imports" -> put_imports_callback(st, cs, s, message, data)
      [] cat = "exports" -> put_exports_callback(st, cs, s, message, data)
      [] cat = "symbols" -> put_symbols_callback(st, cs, s, message, data)
      [] cat = "dependencies" -> put_dependencies_callback(st, cs, s, message, data)
      [] cat = "threads" -> put_threads_callback(st, cs, s, message)
      [] cat = "frames" -> put_frames_callback(st, cs, s, message)
      [] cat = "kregions" -> put_kregions_callback(st, cs, s, message)
      [] cat = "kmodules" -> put_kmodules_callback(st, cs, s, message)
      [] cat = "heap" -> put_heap_callback(st, cs, s, message)
      [] cat = "classes" -> put_loaded_classes_callback(st, cs, s, message)
      [] cat = "loaders" -> put_class_loaders_callback(st, cs, s, message)
      [] cat = "attributes" -> put_session_attributes_callback(st, cs, s, message)
      [] cat = "reg" -> put_reg_callback(st, cs, s, message)
      [] cat = "mem" -> put_mem_callback(st, cs, s, message, data)

\* The container a category's handler retains.
Container(cat, cs, cbdata) ==
    CASE cat = "regions" -> REGIONS_PATTERN(cs.sid, cs.pid)
      [] cat = "modules" -> MODULES_PATTERN(cs.sid, cs.pid)
      [] cat = "sections" -> SECTIONS_PATTERN(cs.sid, cs.pid, cbdata)
      [] cat = "imports" -> IMPORTS_PATTERN(cs.sid, cs.pid, cbdata)
      [] cat = "exports" -> EXPORTS_PATTERN(cs.sid, cs.pid, cbdata)
      [] cat = "symbols" -> SYMBOLS_PATTERN(cs.sid, cs.pid, cbdata)
      [] cat = "dependencies" -> DEPENDENCIES_PATTERN(cs.sid, cs.pid, cbdata)
      [] cat = "threads" -> THREADS_PATTERN(cs.sid, cs.pid)
      [] cat = "frames" -> FRAMES_PATTERN(cs.sid, cs.pid, cs.tid)

(***************************************************************************)
(* Operations.  An operation takes and returns a record                    *)
(*   st: the object tree, cs: util.current_state,                          *)
(*   raised: the exception on its way to the command's caller ("ok": none) *)
(*   did: what has been done: "batch" (a client batch was opened), "query" *)
(*        (a request went to the device or the target), "retain"           *)
(*        (retain_values was called), "handler raised" (a message handler  *)
(*        ended in an exception).                                          *)
(* A handler runs inside the frida message dispatch, which prints and      *)
(* drops what the handler raises: the exception ends the handler, not the  *)
(* command.                                                                *)
(***************************************************************************)
World(d) ==
    [st |-> store, cs |-> current_state, raised |-> "ok", did |-> d, reply |-> NoReply,
     calls |-> <<>>]

Fail(w, e) == [w EXCEPT !.raised = e]

\* The next statement of a sequence: skipped once something was raised.
Try(w, next) == IF w.raised # "ok" THEN w ELSE next

Delivered(w, a, r) ==
    [st |-> a.st, cs |-> a.cs, raised |-> "ok", reply |-> r, calls |-> w.calls \o a.calls,
     did |-> w.did \cup {"query"}
                  \cup (IF a.retained THEN {"retain"} ELSE {})
                  \cup (IF a.raised # "ok" THEN {"handler raised"} ELSE {})]

\* util.run_script / util.run_script_with_data with the handler of cat: no
\* selected process, no session for it (targets[pid]), a script that sends
\* nothing, or the handler called with the reply.
run_script(cat, w, message, data) ==
    IF w.cs.pid = None THEN w
    ELSE IF w.cs.pid \notin targets THEN Fail(w, "KeyError")
    ELSE LET r == [cat |-> cat, message |-> message,
                   data |-> IF cat = "mem" THEN "" ELSE data]
         IN IF message.type = "silent"
            THEN [w EXCEPT !.did = @ \cup {"query"}, !.reply = r]
            ELSE Delivered(w, Callback(cat, w.st, w.cs, snap, message, data), r)

put_regions(w, running, message) ==
    IF running THEN w ELSE run_script("regions", w, message, "")

put_modules(w, running, message) ==
    IF running THEN w ELSE run_script("modules", w, message, "")

put_sections(w, modpath, running, message) ==
    IF running THEN w ELSE run_script("sections", w, message, modpath)

put_imports(w, modpath, running, message) ==
    IF running THEN w ELSE run_script("imports", w, message, modpath)

put_exports(w, modpath, running, message) ==
    IF running THEN w ELSE run_script("exports", w, message, modpath)

put_symbols(w, modpath, running, message) ==
    IF running THEN w ELSE run_script("symbols", w, message, modpath)

put_dependencies(w, modpath, running, message) ==
    IF running THEN w ELSE run_script("dependencies", w, message, modpath)

put_threads(w, running, message) ==
    IF running THEN w ELSE run_script("threads", w, message, "")

put_frames(w, message) == run_script("frames", w, message, "")

put_kregions(w, running, message) ==
    IF running THEN w ELSE run_script("kregions", w, message, "")

put_kmodules(w, running, message) ==
    IF running THEN w ELSE run_script("kmodules", w, message, "")

put_heap(w, running, message) ==
    IF running THEN w ELSE run_script("heap", w, message, "")

put_loaded_classes_objc(w, running, message) ==
    IF running THEN w ELSE run_script("classes", w, message, "")

put_loaded_classes_java(w, running, message) ==
    IF running THEN w ELSE run_script("classes", w, message, "")

put_class_loaders_java(w, running, message) ==
    IF running THEN w ELSE run_script("loaders", w, message, "")

put_session_attributes(w, message) == run_script("attributes", w, message, "")

putreg(w, message) == run_script("reg", w, message, "")

\* frida.enumerate_devices() is not a call through the executor.
Devices == {"local"}

put_sessions(w) ==
    LET st1 == InsertAll(w.st, SESSIONS_PATH, Devices, snap)
        st2 == insert(create_object(st1, Child(SESSION_PATTERN("local"), "Available")),
                      Child(SESSION_PATTERN("local"), "Available"), snap)
    IN [w EXCEPT !.st = retain_values(st2, SESSIONS_PATH, Devices, snap),
                 !.did = @ \cup {"query", "retain"}]

RECURSIVE PutEach(_, _, _)
PutEach(st, pids, s) ==
    IF pids = {} THEN st
    ELSE LET pid == CHOOSE x \in pids : TRUE
         IN PutEach(put_process(st, pid, s), pids \ {pid}, s)

\* put_processes writes util.processes; it asks the device nothing.
put_processes(w, running) ==
    IF running THEN w
    ELSE [w EXCEPT !.st = retain_values(PutEach(@, processes, snap), PROCESSES_PATH,
                                        {PROCESS_KEY_PATTERN(pid) : pid \in processes}, snap),
                   !.did = @ \cup {"retain"}]

RECURSIVE PutListed(_, _, _, _)
PutListed(st, session, pids, s) ==
    IF pids = {} THEN st
    ELSE LET pid == CHOOSE x \in pids : TRUE
             ppath == Elem(session, Fmt(pid))
         IN PutListed(insert(set_value(create_object(st, ppath), ppath, s, pid), ppath, s),
                      session, pids \ {pid}, s)

\* dbg.enumerate_processes() goes through the executor, which fails it while
\* the target runs; retention names the unformatted AVAILABLES_PATH.
put_available(w, result) ==
    IF executing THEN Fail(w, "DebuggeeRunningException")
    ELSE [w EXCEPT !.st = retain_values(
                              PutListed(@, Child(SESSION_PATTERN("local"), "Available"),
                                        result, snap),
                              AVAILABLES_PATH, {Fmt(pid) : pid \in result}, snap),
                   !.did = @ \cup {"query", "retain"}]

put_applications(w, result) ==
    IF executing THEN Fail(w, "DebuggeeRunningException")
    ELSE [w EXCEPT !.st = retain_values(
                              PutListed(@, Child(SESSION_PATTERN("local"), "Applications"),
                                        result, snap),
                              APPLICATIONS_PATH, {Fmt(pid) : pid \in result}, snap),
                   !.did = @ \cup {"query", "retain"}]

\* The environment object is created and given '_debugger' before
\* arch.get_arch() asks the device; get_arch catches Exception, which
\* DebuggeeRunningException (a BaseException) is not.
put_environment(w) ==
    LET epath == ENV_PATTERN(w.cs.sid)
        st1 == set_value(create_object(w.st, epath), epath, snap, 1)
    IN IF executing THEN [w EXCEPT !.st = st1, !.raised = "DebuggeeRunningException"]
       ELSE [w EXCEPT !.st = insert(set_value(st1, epath, snap, 2), epath, snap),
                      !.did = @ \cup {"query"}]

\* putmem: last_address and last_length are set, then the read is scripted.
putmem(w, address, length, message) ==
    IF address = None THEN w
    ELSE run_script("mem", [w EXCEPT !.calls = <<MemCall("putmem", address,
                                                  address + length)>>],
                    message,
                    [address |-> address, last_address |-> address, last_length |-> length])

putmem_state(w, address, length, state, pages) ==
    IF state \notin MemoryStates THEN Fail(w, "ValueError")
    ELSE LET marked(r) ==
                 [w EXCEPT !.st = SetPages(@, "ram", PagesOf(r[1], r[2]), snap, StateCode(state)),
                           !.calls = <<MemCall("set_memory_state", r[1], r[2])>>]
         IN marked(putmem_state_range(address, length, pages))

\* The per-category operation of cat, as its command calls it.
Operation(cat, w, modpath, running, message) ==
    CASE cat = "regions" -> put_regions(w, running, message)
      [] cat = "modules" -> put_modules(w, running, message)
      [] cat = "sections" -> put_sections(w, modpath, running, message)
      [] cat = "imports" -> put_imports(w, modpath, running, message)
      [] cat = "exports" -> put_exports(w, modpath, running, message)
      [] cat = "symbols" -> put_symbols(w, modpath, running, message)
      [] cat = "dependencies" -> put_dependencies(w, modpath, running, message)
      [] cat = "threads" -> put_threads(w, running, message)
      [] cat = "frames" -> put_frames(w, message)

(***************************************************************************)
(* Commands that write to the trace.  The replies a command's script may   *)
(* get are the enumerations of consecutive keys, each possibly damaged.    *)
(***************************************************************************)
MaxMod == 1       \* module paths named by the per-module commands 1..MaxMod

\* util.run_script_with_data puts the argument into the script's text as
\* `var data = <modpath>;` and the reply carries it back formatted; the
\* paths here are numerals, whose echo formats to the same text.
ModPaths == {Fmt(k) : k \in 1..MaxMod}

Consecutive(values) ==
    \A i \in 1..Len(values) :
        /\ values[i].val = 1
        /\ i > 1 => values[i].key = values[i - 1].key + 1

ScriptReplies == {m \in Replies(MaxRecs) : Consecutive(m.value)}

\* What the script of a per-category command may be answered: any reply
\* while the trace may still receive a changed enumeration, and afterwards,
\* once, the reply the same query got last (the target has not changed).
Enumerations(cat, data) ==
    IF nput < MaxPuts THEN ScriptReplies
    ELSE IF nput = MaxPuts /\ reply.cat = cat /\ reply.data = data THEN {reply.message}
    ELSE {}

\* The command finishes with the outcome w.
Apply(w) ==
    /\ store' = w.st
    /\ current_state' = w.cs
    /\ nput' = nput + 1
    /\ err' = w.raised
    /\ did' = w.did
    /\ reply' = w.reply
    /\ calls' = w.calls
    /\ UNCHANGED <<sessionVars, openTxs, snap, processes, targets, deviceVars,
                   executing, withStack, pc>>

ghidra_trace_put_regions ==
    /\ cmd' = "ghidra_trace_put_regions"
    /\ UNCHANGED <<execVars, archVars>>
    /\ pc = Idle
    /\ IF require_tx_fails(State) THEN Raise("No transaction")
       ELSE \E message \in Enumerations("regions", "") :
                Apply(put_regions(World({"batch"}), FALSE, message))

ghidra_trace_put_modules ==
    /\ cmd' = "ghidra_trace_put_modules"
    /\ UNCHANGED <<execVars, archVars>>
    /\ pc = Idle
    /\ IF require_tx_fails(State) THEN Raise("No transaction")
       ELSE \E message \in Enumerations("modules", "") :
                Apply(put_modules(World({"batch"}), FALSE, message))

ghidra_trace_put_sections ==
    /\ cmd' = "ghidra_trace_put_sections"
    /\ UNCHANGED <<execVars, archVars>>
    /\ pc = Idle
    /\ IF require_tx_fails(State) THEN Raise("No transaction")
       ELSE \E modpath \in ModPaths : \E message \in Enumerations("sections", modpath) :
                Apply(put_sections(World({"batch"}), modpath, FALSE, message))

ghidra_trace_put_imports ==
    /\ cmd' = "ghidra_trace_put_imports"
    /\ UNCHANGED <<execVars, archVars>>
    /\ pc = Idle
    /\ IF require_tx_fails(State) THEN Raise("No transaction")
       ELSE \E modpath \in ModPaths : \E message \in Enumerations("imports", modpath) :
                Apply(put_imports(World({"batch"}), modpath, FALSE, message))

ghidra_trace_put_exports ==
    /\ cmd' = "ghidra_trace_put_exports"
    /\ UNCHANGED <<execVars, archVars>>
    /\ pc = Idle
    /\ IF require_tx_fails(State) THEN Raise("No transaction")
       ELSE \E modpath \in ModPaths : \E message \in Enumerations("exports", modpath) :
                Apply(put_exports(World({"batch"}), modpath, FALSE, message))

ghidra_trace_put_symbols ==
    /\ cmd' = "ghidra_trace_put_symbols"
    /\ UNCHANGED <<execVars, archVars>>
    /\ pc = Idle
    /\ IF require_tx_fails(State) THEN Raise("No transaction")
       ELSE \E modpath \in ModPaths : \E message \in Enumerations("symbols", modpath) :
                Apply(put_symbols(World({"batch"}), modpath, FALSE, message))

ghidra_trace_put_dependencies ==
    /\ cmd' = "ghidra_trace_put_dependencies"
    /\ UNCHANGED <<execVars, archVars>>
    /\ pc = Idle
    /\ IF require_tx_fails(State) THEN Raise("No transaction")
       ELSE \E modpath \in ModPaths : \E message \in Enumerations("dependencies", modpath) :
                Apply(put_dependencies(World({"batch"}), modpath, FALSE, message))

ghidra_trace_put_threads ==
    /\ cmd' = "ghidra_trace_put_threads"
    /\ UNCHANGED <<execVars, archVars>>
    /\ pc = Idle
    /\ IF require_tx_fails(State) THEN Raise("No transaction")
       ELSE \E message \in Enumerations("threads", "") :
                Apply(put_threads(World({"batch"}), FALSE, message))

ghidra_trace_put_frames ==
    /\ cmd' = "ghidra_trace_put_frames"
    /\ UNCHANGED <<execVars, archVars>>
    /\ pc = Idle
    /\ IF require_tx_fails(State) THEN Raise("No transaction")
       ELSE \E message \in Enumerations("frames", "") :
                Apply(put_frames(World({"batch"}), message))

ghidra_trace_put_kregions ==
    /\ cmd' = "ghidra_trace_put_kregions"
    /\ UNCHANGED <<execVars, archVars>>
    /\ pc = Idle
    /\ IF require_tx_fails(State) THEN Raise("No transaction")
       ELSE /\ nput < MaxPuts
            /\ \E message \in ScriptReplies :
                Apply(put_kregions(World({"batch"}), FALSE, message))

ghidra_trace_put_kmodules ==
    /\ cmd' = "ghidra_trace_put_kmodules"
    /\ UNCHANGED <<execVars, archVars>>
    /\ pc = Idle
    /\ IF require_tx_fails(State) THEN Raise("No transaction")
       ELSE /\ nput < MaxPuts
            /\ \E message \in ScriptReplies :
                Apply(put_kmodules(World({"batch"}), FALSE, message))

ghidra_trace_put_heap ==
    /\ cmd' = "ghidra_trace_put_heap"
    /\ UNCHANGED <<execVars, archVars>>
    /\ pc = Idle
    /\ IF require_tx_fails(State) THEN Raise("No transaction")
       ELSE /\ nput < MaxPuts
            /\ \E message \in ScriptReplies :
                Apply(put_heap(World({"batch"}), FALSE, message))

ghidra_trace_put_loaded_classes_objc ==
    /\ cmd' = "ghidra_trace_put_loaded_classes_objc"
    /\ UNCHANGED <<execVars, archVars>>
    /\ pc = Idle
    /\ IF require_tx_fails(State) THEN Raise("No transaction")
       ELSE /\ nput < MaxPuts
            /\ \E message \in Replies(1) :
                Apply(put_loaded_classes_objc(World({"batch"}), FALSE, message))

ghidra_trace_put_loaded_classes_java ==
    /\ cmd' = "ghidra_trace_put_loaded_classes_java"
    /\ UNCHANGED <<execVars, archVars>>
    /\ pc = Idle
    /\ IF require_tx_fails(State) THEN Raise("No transaction")
       ELSE /\ nput < MaxPuts
            /\ \E message \in Replies(1) :
                Apply(put_loaded_classes_java(World({"batch"}), FALSE, message))

ghidra_trace_put_class_loaders_java ==
    /\ cmd' = "ghidra_trace_put_class_loaders_java"
    /\ UNCHANGED <<execVars, archVars>>
    /\ pc = Idle
    /\ IF require_tx_fails(State) THEN Raise("No transaction")
       ELSE /\ nput < MaxPuts
            /\ \E message \in ScriptReplies :
                Apply(put_class_loaders_java(World({"batch"}), FALSE, message))

ghidra_trace_put_sessions ==
    /\ cmd' = "ghidra_trace_put_sessions"
    /\ UNCHANGED <<execVars, archVars>>
    /\ pc = Idle
    /\ IF require_tx_fails(State) THEN Raise("No transaction")
       ELSE /\ nput < MaxPuts
            /\ Apply(put_sessions(World({"batch"})))

\* The history of a process-level list: the processes the device enumerated,
\* in the shape of a reply, once the list was written.
RECURSIVE Listed(_)
Listed(pids) ==
    IF pids = {} THEN <<>>
    ELSE LET pid == CHOOSE x \in pids : \A y \in pids : x <= y
         IN <<[kind |-> "ok", key |-> pid, val |-> 1]>> \o Listed(pids \ {pid})

Enumerated(w, list, result) ==
    IF w.raised # "ok" THEN w
    ELSE [w EXCEPT !.reply = [cat |-> list, message |-> [type |-> "send", value |-> Listed(result)],
                              data |-> ""]]

ghidra_trace_put_processes ==
    /\ cmd' = "ghidra_trace_put_processes"
    /\ UNCHANGED <<execVars, archVars>>
    /\ pc = Idle
    /\ IF require_tx_fails(State) THEN Raise("No transaction")
       ELSE /\ nput < MaxPuts
            /\ Apply(put_processes(World({"batch"}), FALSE))

ghidra_trace_put_available ==
    /\ cmd' = "ghidra_trace_put_available"
    /\ UNCHANGED <<execVars, archVars>>
    /\ pc = Idle
    /\ IF require_tx_fails(State) THEN Raise("No transaction")
       ELSE /\ nput < MaxPuts
            /\ \E result \in SUBSET Pids :
                Apply(Enumerated(put_available(World({"batch"}), result), "available", result))

ghidra_trace_put_applications ==
    /\ cmd' = "ghidra_trace_put_applications"
    /\ UNCHANGED <<execVars, archVars>>
    /\ pc = Idle
    /\ IF require_tx_fails(State) THEN Raise("No transaction")
       ELSE /\ nput < MaxPuts
            /\ \E result \in SUBSET Pids :
                Apply(Enumerated(put_applications(World({"batch"}), result), "applications",
                                 result))

ghidra_trace_put_session_attributes ==
    /\ cmd' = "ghidra_trace_put_session_attributes"
    /\ UNCHANGED <<execVars, archVars>>
    /\ pc = Idle
    /\ IF require_tx_fails(State) THEN Raise("No transaction")
       ELSE /\ nput < MaxPuts
            /\ \E message \in Replies(1) :
                Apply(put_session_attributes(World({"batch"}), message))

ghidra_trace_put_environment ==
    /\ cmd' = "ghidra_trace_put_environment"
    /\ UNCHANGED <<execVars, archVars>>
    /\ pc = Idle
    /\ IF require_tx_fails(State) THEN Raise("No transaction")
       ELSE /\ nput < MaxPuts
            /\ Apply(put_environment(World({"batch"})))

ghidra_trace_putreg ==
    /\ cmd' = "ghidra_trace_putreg"
    /\ UNCHANGED <<execVars, archVars>>
    /\ pc = Idle
    /\ IF require_tx_fails(State) THEN Raise("No transaction")
       ELSE /\ nput < MaxPuts
            /\ \E message \in ScriptReplies :
                Apply(putreg(World({}), message))

(***************************************************************************)
(* Memory, disassembly and the object commands.  Addresses and lengths     *)
(* that parse are positive integers; BadNumber is text that does not.      *)
(***************************************************************************)
BadNumber == -1

Addresses == {1, PAGE_SIZE}

Lengths == {1, PAGE_SIZE}

ghidra_trace_putmem ==
    /\ cmd' = "ghidra_trace_putmem"
    /\ UNCHANGED <<execVars, archVars>>
    /\ pc = Idle
    /\ IF require_tx_fails(State) THEN Raise("No transaction")
       ELSE /\ nput < MaxPuts
            /\ \E address \in Addresses \cup {None}, length \in Lengths,
                  message \in Replies(1) :
                Apply(putmem(World({}), address,
                             IF length < PAGE_SIZE THEN PAGE_SIZE ELSE length, message))

ghidra_trace_putmem_state ==
    /\ cmd' = "ghidra_trace_putmem_state"
    /\ UNCHANGED <<execVars, archVars>>
    /\ pc = Idle
    /\ IF require_tx_fails(State) THEN Raise("No transaction")
       ELSE /\ nput < MaxPuts
            /\ \E address \in Addresses, length \in Lengths,
                  state \in MemoryStates \cup {"bogus"}, pages \in BOOLEAN :
                Apply(putmem_state(World({}), address, length, state, pages))

\* delete_bytes over [start, end), not quantized: the pages it meets.
ghidra_trace_delmem ==
    /\ cmd' = "ghidra_trace_delmem"
    /\ UNCHANGED <<execVars, archVars>>
    /\ pc = Idle
    /\ IF require_tx_fails(State) THEN Raise("No transaction")
       ELSE /\ nput < MaxPuts
            /\ \E address \in Addresses \cup {BadNumber}, length \in Lengths :
                IF address = BadNumber
                THEN Apply(Fail(World({}), "Cannot convert to address"))
                ELSE LET r == eval_range(address, length)
                     IN Apply([World({}) EXCEPT
                                 !.st = SetPages(@, "ram", PagesOf(r[1], r[2]), snap, None)])

\* Trace.disassemble(addr): the listing of the page gets code units.
ghidra_trace_disassemble ==
    /\ cmd' = "ghidra_trace_disassemble"
    /\ UNCHANGED <<execVars, archVars>>
    /\ pc = Idle
    /\ IF require_tx_fails(State) THEN Raise("No transaction")
       ELSE /\ nput < MaxPuts
            /\ \E address \in Addresses \cup {BadNumber} :
                IF address = BadNumber
                THEN Apply(Fail(World({}), "Cannot convert to address"))
                ELSE Apply([World({}) EXCEPT
                              !.st = SetPages(@, "listing", PagesOf(address, address + 1),
                                              snap, 1)])

UserPaths == {<<"Test">>, Elem(REGIONS_PATTERN("local", 1), "1")}

ghidra_trace_create_obj ==
    /\ cmd' = "ghidra_trace_create_obj"
    /\ UNCHANGED <<execVars, archVars>>
    /\ pc = Idle
    /\ IF require_tx_fails(State) THEN Raise("No transaction")
       ELSE /\ nput < MaxPuts
            /\ \E path \in UserPaths :
                Apply([World({}) EXCEPT !.st = insert(create_object(@, path), path, snap)])

\* proxy_object_path(path) names an object without creating it: the trace
\* refuses the request when there is none.
ghidra_trace_insert_obj ==
    /\ cmd' = "ghidra_trace_insert_obj"
    /\ UNCHANGED <<execVars, archVars>>
    /\ pc = Idle
    /\ IF require_tx_fails(State) THEN Raise("No transaction")
       ELSE /\ nput < MaxPuts
            /\ \E path \in UserPaths :
                IF path \notin DOMAIN store
                THEN Apply(Fail(World({}), "TraceRmiError"))
                ELSE Apply([World({}) EXCEPT !.st = insert(@, path, snap)])

ghidra_trace_remove_obj ==
    /\ cmd' = "ghidra_trace_remove_obj"
    /\ UNCHANGED <<execVars, archVars>>
    /\ pc = Idle
    /\ IF require_tx_fails(State) THEN Raise("No transaction")
       ELSE /\ nput < MaxPuts
            /\ \E path \in UserPaths :
                IF path \notin DOMAIN store
                THEN Apply(Fail(World({}), "TraceRmiError"))
                ELSE Apply([World({}) EXCEPT !.st = remove(@, path, snap)])

\* schema None: the value is parsed by util.parse_and_eval.
ghidra_trace_set_value ==
    /\ cmd' = "ghidra_trace_set_value"
    /\ UNCHANGED <<execVars, archVars>>
    /\ pc = Idle
    /\ IF require_tx_fails(State) THEN Raise("No transaction")
       ELSE /\ nput < MaxPuts
            /\ \E path \in UserPaths, value \in Vals \cup {BadNumber} :
                IF value = BadNumber THEN Apply(Fail(World({}), "ValueError"))
                ELSE IF path \notin DOMAIN store
                THEN Apply(Fail(World({}), "TraceRmiError"))
                ELSE Apply([World({}) EXCEPT !.st = set_value(@, path, snap, value)])

\* keys.split(" "), then the optional switch.
RetainArguments == {<<"1">>, <<"--elements", "1">>, <<"--bogus", "1">>, <<"">>}

ghidra_trace_retain_values ==
    /\ cmd' = "ghidra_trace_retain_values"
    /\ UNCHANGED <<execVars, archVars>>
    /\ pc = Idle
    /\ IF require_tx_fails(State) THEN Raise("No transaction")
       ELSE /\ nput < MaxPuts
            /\ \E keys \in RetainArguments :
                IF keys[1] = "--elements"
                THEN Apply([World({"retain"}) EXCEPT
                              !.st = retain_values(@, REGIONS_PATTERN("local", 1),
                                                   Range(Tail(keys)), snap)])
                ELSE IF keys[1] = "--bogus"
                THEN Apply(Fail(World({}), "Invalid argument"))
                ELSE Apply([World({"retain"}) EXCEPT
                              !.st = retain_values(@, REGIONS_PATTERN("local", 1),
                                                   Range(keys), snap)])

\* The replies ghidra_trace_put_all's five scripted queries may get.
PutAllReplies ==
    {[type |-> "send", value |-> <<>>],
     [type |-> "send", value |-> <<[kind |-> "ok", key |-> 1, val |-> 1]>>],
     [type |-> "error", value |-> <<>>]}

\* The statements of put_all after put_sessions, in the order of the source.
PutAllOrder ==
    <<"session_attributes", "environment", "available", "applications",
      "processes", "regions", "modules", "threads", "frames">>

put_all_statement(name, w, ms, result) ==
    CASE name = "session_attributes" -> put_session_attributes(w, ms[1])
      [] name = "environment" -> put_environment(w)
      [] name = "available" -> put_available(w, result)
      [] name = "applications" -> put_applications(w, result)
      [] name = "processes" -> put_processes(w, FALSE)
      [] name = "regions" -> put_regions(w, FALSE, ms[2])
      [] name = "modules" -> put_modules(w, FALSE, ms[3])
      [] name = "threads" -> put_threads(w, FALSE, ms[4])
      [] name = "frames" -> put_frames(w, ms[5])

\* Each statement runs on the result of the one before it, and none runs
\* once one has raised.  (The singleton set binds each intermediate result
\* to a value, so that it is computed once.)
\* did records the statements of put_all that were called.
Attempted(w, name) == [w EXCEPT !.did = @ \cup {name}]

RECURSIVE put_all_from(_, _, _, _)
put_all_from(w, names, ms, result) ==
    IF names = <<>> \/ w.raised # "ok" THEN w
    ELSE CHOOSE w2 \in {put_all_from(w1, Tail(names), ms, result) :
                            w1 \in {put_all_statement(Head(names), Attempted(w, Head(names)),
                                                      ms, result)}} : TRUE

put_all(w, ms, result) ==
    CHOOSE w2 \in {put_all_from(w1, PutAllOrder, ms, result) :
                       w1 \in {put_sessions(Attempted(w, "sessions"))}} : TRUE

ghidra_trace_put_all ==
    /\ cmd' = "ghidra_trace_put_all"
    /\ UNCHANGED <<execVars, archVars>>
    /\ pc = Idle
    /\ IF require_tx_fails(State) THEN Raise("No transaction")
       ELSE /\ nput < MaxPuts
            /\ \E ms \in [1..5 -> PutAllReplies], result \in SUBSET Pids :
                Apply(put_all(World({"batch"}), ms, result))

(***************************************************************************)
(* Specifications.                                                         *)
(*                                                                         *)
(* Spec: the session from construction on: connecting, starting and        *)
(* stopping traces, transactions, spawning and attaching.                  *)
(***************************************************************************)
Next ==
    \/ ghidra_trace_connect \/ ghidra_trace_listen \/ ghidra_trace_disconnect
    \/ ghidra_trace_start \/ ghidra_trace_stop \/ ghidra_trace_restart
    \/ ghidra_trace_txstart \/ ghidra_trace_txcommit \/ ghidra_trace_txabort
    \/ open_tracked_tx \/ open_tracked_tx_exit
    \/ ghidra_trace_new_snap
    \/ state_execute \/ state_break
    \/ attach_by_pid \/ attach_by_name \/ attach_tx_block
    \/ ghidra_trace_create \/ create_tx_block \/ create_attach_by_pid

Spec == Init /\ [][Next]_vars

(***************************************************************************)
(* CmdSpec: every command that writes to the trace, from the states Spec   *)
(* is in after ghidra_trace_connect, ghidra_trace_start and                *)
(* ghidra_trace_create (spawn and attach), before ghidra_trace_txstart     *)
(* (held FALSE) and after it (held TRUE).  The history variables err,     *)
(* did, reply and cmd start cleared.                                       *)
(***************************************************************************)
PreparedStore ==
    retain_values(put_process(EmptyStore, 1, 1), PROCESSES_PATH, {PROCESS_KEY_PATTERN(1)}, 1)

PreparedSession(held) ==
    /\ State = [client |-> TheClient, trace |-> TheTrace, tx |-> IF held THEN 1 ELSE None]
    /\ tracing = "true"
    /\ openTxs = IF held THEN {1} ELSE {}
    /\ snap = 1
    /\ processes = {1}
    /\ targets = {1}
    /\ spawned = {1}
    /\ attached = {1}
    /\ executing = FALSE
    /\ withStack = <<>>
    /\ pc = Idle
    /\ nput = 0
    /\ err = "ok"
    /\ did = {}
    /\ reply = NoReply
    /\ calls = <<>>
    /\ cmd = ""
    /\ ExecutorInit
    /\ ArchInit
    /\ register_mapper = compute_register_mapper(compute_ghidra_language).value

Prepared(held) ==
    /\ PreparedSession(held)
    /\ store = PreparedStore
    /\ current_state = [sid |-> "local", pid |-> 1, tid |-> None, fid |-> None]

CmdInit == \E held \in BOOLEAN : Prepared(held)

CmdNext ==
    \/ state_execute \/ state_break
    \/ ghidra_trace_new_snap
    \/ ghidra_trace_put_regions \/ ghidra_trace_put_modules
    \/ ghidra_trace_put_sections \/ ghidra_trace_put_imports
    \/ ghidra_trace_put_exports \/ ghidra_trace_put_symbols
    \/ ghidra_trace_put_dependencies \/ ghidra_trace_put_threads
    \/ ghidra_trace_put_frames
    \/ ghidra_trace_put_kregions \/ ghidra_trace_put_kmodules
    \/ ghidra_trace_put_heap
    \/ ghidra_trace_put_loaded_classes_objc \/ ghidra_trace_put_loaded_classes_java
    \/ ghidra_trace_put_class_loaders_java
    \/ ghidra_trace_put_sessions \/ ghidra_trace_put_processes
    \/ ghidra_trace_put_available \/ ghidra_trace_put_applications
    \/ ghidra_trace_put_session_attributes \/ ghidra_trace_put_environment
    \/ ghidra_trace_putreg \/ ghidra_trace_putmem \/ ghidra_trace_putmem_state
    \/ ghidra_trace_delmem \/ ghidra_trace_disassemble
    \/ ghidra_trace_create_obj \/ ghidra_trace_insert_obj \/ ghidra_trace_remove_obj
    \/ ghidra_trace_set_value \/ ghidra_trace_retain_values
    \/ ghidra_trace_put_all

CmdSpec == CmdInit /\ [][CmdNext]_vars

(***************************************************************************)
(* SyncSpec: the nine per-category synchronisations over a trace that an   *)
(* earlier run of each of them has filled: the prepared state, then every  *)
(* category synchronised at snapshot 1 with the same enumeration.          *)
(***************************************************************************)
PriorReplies ==
    {m \in ScriptReplies : /\ m.type = "send"
                           /\ \A i \in 1..Len(m.value) :
                                 m.value[i].kind = "ok" /\ m.value[i].key = i}

SyncOrder ==
    <<"threads", "frames", "regions", "modules", "sections", "imports", "exports",
      "symbols", "dependencies">>

RECURSIVE Synced(_, _, _)
Synced(w, cats, message) ==
    IF cats = <<>> THEN w
    ELSE CHOOSE w2 \in {Synced(w1, Tail(cats), message) :
                            w1 \in {Operation(Head(cats), w, Fmt(1), FALSE, message)}} : TRUE

SyncInit ==
    /\ PreparedSession(TRUE)
    /\ \E prior \in PriorReplies :
        LET w == Synced([st |-> PreparedStore,
                         cs |-> [sid |-> "local", pid |-> 1, tid |-> None, fid |-> None],
                         raised |-> "ok", did |-> {}, reply |-> NoReply, calls |-> <<>>],
                        SyncOrder, prior)
        IN store = w.st /\ current_state = w.cs

SyncNext ==
    \/ ghidra_trace_new_snap
    \/ ghidra_trace_put_regions \/ ghidra_trace_put_modules
    \/ ghidra_trace_put_sections \/ ghidra_trace_put_imports
    \/ ghidra_trace_put_exports \/ ghidra_trace_put_symbols
    \/ ghidra_trace_put_dependencies \/ ghidra_trace_put_threads
    \/ ghidra_trace_put_frames

SyncSpec == SyncInit /\ [][SyncNext]_vars

(***************************************************************************)
(* ThreadSpec: the threads and the registers of the selected thread        *)
(* written again over a trace that an earlier synchronisation has filled,  *)
(* which selected its last thread and created the threads' register        *)
(* spaces.                                                                 *)
(***************************************************************************)
ThreadInit == SyncInit

ThreadNext ==
    \/ ghidra_trace_new_snap
    \/ ghidra_trace_put_threads
    \/ ghidra_trace_putreg

ThreadSpec == ThreadInit /\ [][ThreadNext]_vars

(***************************************************************************)
(* TxSpec: the session's own transaction around synchronisations of the    *)
(* regions: txstart, put_regions and new_snap inside it, txcommit or        *)
(* txabort, over the prepared session with no transaction held.            *)
(***************************************************************************)
TxInit == Prepared(FALSE)

TxNext ==
    \/ ghidra_trace_txstart \/ ghidra_trace_txcommit \/ ghidra_trace_txabort
    \/ ghidra_trace_put_regions \/ ghidra_trace_new_snap

TxSpec == TxInit /\ [][TxNext]_vars

(***************************************************************************)
(* ListSpec: the process-level lists (Processes, Available, Applications)  *)
(* written again over a trace that an earlier put_available and            *)
(* put_applications wrote, with the device's enumeration changed between.  *)
(***************************************************************************)
ListInit ==
    /\ \E held \in BOOLEAN : PreparedSession(held)
    /\ current_state = [sid |-> "local", pid |-> 1, tid |-> None, fid |-> None]
    /\ \E available \in SUBSET Pids, applications \in SUBSET Pids :
        LET w == [st |-> PreparedStore, cs |-> current_state, raised |-> "ok", did |-> {},
                  reply |-> NoReply, calls |-> <<>>]
        IN store = put_applications(put_available(put_sessions(w), available),
                                    applications).st

ListNext ==
    \/ state_execute \/ state_break
    \/ ghidra_trace_new_snap
    \/ ghidra_trace_put_processes
    \/ ghidra_trace_put_available
    \/ ghidra_trace_put_applications

ListSpec == ListInit /\ [][ListNext]_vars

(***************************************************************************)
(* ExecSpec: the executor (util.py).  Threads call GhidraDbg.run,          *)
(* run_async and the methods wrapped by eng_thread and check_thread, and   *)
(* run scripts on a session; the worker takes work items and runs them;    *)
(* _state_execute and _state_break open and close the running gate.  No    *)
(* lock covers _submit_no_exit or _state_execute, so the read of           *)
(* _executing and the put on the queue are two steps of a thread, and so   *)
(* are the write of _executing and each get of _clear_queue.  The worker's *)
(* dispatch(100) on an empty queue changes nothing and is not a step.      *)
(***************************************************************************)
\* Attributes of the device that GhidraDbg.__init__ wraps with eng_thread
\* and that call into the target.  One loop wraps all of them (spawn,
\* enumerate_applications, query_system_parameters, kill, resume, ...) the
\* same way; two stand for them.
DeviceCalls == {"attach", "enumerate_processes"}

\* The methods of GhidraDbg decorated with check_thread.
CheckThreadMethods == {"dispatch_events"}

\* A function given to run or run_async directly.
PlainFns == {"fn"}

ScriptCalls == {"run_script", "run_script_with_data", "run_script_no_ret"}

\* A thread check that takes every thread for a foreign one.
on_engine_thread_unchecked(t) == FALSE

\* threading.current_thread() is self._thread
on_engine_thread(t) == t = Worker

\* A thread is free to call: a caller between calls, or the worker inside
\* the function of the work item it runs.
CanCall(t) ==
    \/ t \in Callers /\ thread[t].at = "idle"
    \/ t = Worker /\ thread[t].at = "run"

NewItem == CHOOSE i \in Items : future[i] = "unborn" /\ \A j \in 1..(i - 1) : future[j] # "unborn"

\* A queue that hands out its newest item.
get_nowait_newest(q) == [item |-> q[Len(q)], rest |-> SubSeq(q, 1, Len(q) - 1)]

\* A queue that hands out its head and keeps it.
get_nowait_kept(q) == [item |-> Head(q), rest |-> q]

\* SimpleQueue.get_nowait on a queue that is not empty
get_nowait(q) == [item |-> Head(q), rest |-> Tail(q)]

\* _submit_no_exit up to the put: the Future is made and, while _executing
\* is read as set, failed and returned (waiting: future.result then raises
\* at once in the caller); otherwise the thread goes on to put the item.
submit_no_exit(t, fn, waiting) ==
    /\ \E i \in Items : future[i] = "unborn"
    /\ submitted' = [submitted EXCEPT ![NewItem] = [by |-> t, fn |-> fn]]
    /\ IF executing
       THEN /\ future' = [future EXCEPT ![NewItem] = "DebuggeeRunningException"]
            /\ err' = IF waiting THEN "DebuggeeRunningException" ELSE "ok"
            /\ UNCHANGED thread
       ELSE /\ future' = [future EXCEPT ![NewItem] = "pending"]
            /\ thread' = [thread EXCEPT ![t] = [at |-> IF waiting THEN "put" ELSE "put_async",
                                                item |-> NewItem]]
            /\ err' = "ok"
    /\ UNCHANGED <<work_queue, ranlog, lastcall, executing>>

execOthers == <<State, tracing, register_mapper, openTxs, snap, store, current_state, processes,
                targets, spawned, attached, withStack, pc, nput, did, reply, calls, archVars>>

\* GhidraDbg.run(fn)
GhidraDbg_run ==
    /\ cmd' = "GhidraDbg.run"
    /\ \E t \in Callers \cup {Worker}, fn \in PlainFns :
        /\ CanCall(t)
        /\ IF on_engine_thread(t)
           THEN err' = "WrongThreadException" /\ UNCHANGED <<execVars, executing>>
           ELSE submit_no_exit(t, fn, TRUE)
    /\ UNCHANGED execOthers

\* GhidraDbg.run_async(fn)
GhidraDbg_run_async ==
    /\ cmd' = "GhidraDbg.run_async"
    /\ \E t \in Callers, fn \in PlainFns :
        /\ CanCall(t)
        /\ submit_no_exit(t, fn, FALSE)
    /\ UNCHANGED execOthers

\* A call of a method wrapped by eng_thread or check_thread: inline on the
\* engine thread, through run on any other.
wrapped_call ==
    /\ cmd' = "wrapped call"
    /\ \E t \in Callers \cup {Worker}, fn \in DeviceCalls \cup CheckThreadMethods :
        /\ CanCall(t)
        /\ IF on_engine_thread(t)
           THEN /\ lastcall' = [call |-> fn, thread |-> t]
                /\ err' = "ok"
                /\ UNCHANGED <<work_queue, future, submitted, thread, ranlog, executing>>
           ELSE submit_no_exit(t, fn, TRUE)
    /\ UNCHANGED execOthers

\* _submit_no_exit, the put: self._work_queue.put(w)
queue_put ==
    /\ cmd' = "queue put"
    /\ \E t \in Threads :
        /\ thread[t].at \in {"put", "put_async"}
        /\ work_queue' = Append(work_queue, thread[t].item)
        /\ thread' = [thread EXCEPT ![t] = IF thread[t].at = "put"
                                           THEN [at |-> "wait", item |-> thread[t].item]
                                           ELSE [at |-> "idle", item |-> None]]
    /\ UNCHANGED <<future, submitted, ranlog, lastcall, executing, err>>
    /\ UNCHANGED execOthers

\* GhidraDbg.run, the loop on future.result(0.5), once the future is done.
future_result ==
    /\ cmd' = "future.result"
    /\ \E t \in Threads :
        /\ thread[t].at = "wait"
        /\ future[thread[t].item] \notin {"unborn", "pending"}
        /\ err' = IF future[thread[t].item] = "done" THEN "ok" ELSE future[thread[t].item]
        /\ thread' = [thread EXCEPT ![t] = [at |-> "idle", item |-> None]]
    /\ UNCHANGED <<work_queue, future, submitted, ranlog, lastcall, executing>>
    /\ UNCHANGED execOthers

\* _Worker.run: work_item = self.work_queue.get_nowait()
worker_get ==
    /\ cmd' = "worker get"
    /\ thread[Worker].at = "idle"
    /\ work_queue # <<>>
    /\ LET got == get_nowait(work_queue)
       IN /\ work_queue' = got.rest
          /\ thread' = [thread EXCEPT ![Worker] = [at |-> "run", item |-> got.item]]
          /\ ranlog' = Append(ranlog, got.item)
    /\ UNCHANGED <<future, submitted, lastcall, executing, err>>
    /\ UNCHANGED execOthers

\* _WorkItem.run: the function returns or raises, and the future gets its
\* result or its exception ("done" either way).
work_item_run ==
    /\ cmd' = "work item run"
    /\ thread[Worker].at = "run"
    /\ LET i == thread[Worker].item
       IN /\ future' = [future EXCEPT ![i] = "done"]
          /\ lastcall' = IF submitted[i].fn \in DeviceCalls \cup CheckThreadMethods
                         THEN [call |-> submitted[i].fn, thread |-> Worker]
                         ELSE lastcall
    /\ thread' = [thread EXCEPT ![Worker] = [at |-> "idle", item |-> None]]
    /\ UNCHANGED <<work_queue, submitted, ranlog, executing, err>>
    /\ UNCHANGED execOthers

\* _state_execute: self._executing = True
state_execute_flag ==
    /\ cmd' = "_state_execute"
    /\ thread[Gate].at = "idle"
    /\ ~executing
    /\ executing' = TRUE
    /\ thread' = [thread EXCEPT ![Gate] = [at |-> "clear", item |-> None]]
    /\ UNCHANGED <<work_queue, future, submitted, ranlog, lastcall, err>>
    /\ UNCHANGED execOthers

\* _clear_queue, one turn of its loop: the queue is empty and it returns, or
\* it takes an item and fails its future.
clear_queue ==
    /\ cmd' = "_clear_queue"
    /\ thread[Gate].at = "clear"
    /\ IF work_queue = <<>>
       THEN /\ thread' = [thread EXCEPT ![Gate] = [at |-> "idle", item |-> None]]
            /\ UNCHANGED <<work_queue, future>>
       ELSE LET got == get_nowait(work_queue)
            IN /\ work_queue' = got.rest
               /\ future' = [future EXCEPT ![got.item] = "DebuggeeRunningException"]
               /\ UNCHANGED thread
    /\ UNCHANGED <<submitted, ranlog, lastcall, executing, err>>
    /\ UNCHANGED execOthers

\* _state_break: self._executing = False
state_break_flag ==
    /\ cmd' = "_state_break"
    /\ thread[Gate].at = "idle"
    /\ executing
    /\ executing' = FALSE
    /\ UNCHANGED <<execVars, err>>
    /\ UNCHANGED execOthers

\* util.run_script, run_script_with_data and run_script_no_ret: the session
\* of the selected process (util.targets[pid], what dbg.attach returned)
\* creates, loads and unloads the script in the thread that calls.
script_call ==
    /\ cmd' = "script call"
    /\ \E t \in Callers, name \in ScriptCalls :
        /\ CanCall(t)
        /\ current_state.pid # None
        /\ current_state.pid \in targets
        /\ lastcall' = [call |-> name, thread |-> t]
    /\ UNCHANGED <<work_queue, future, submitted, thread, ranlog, executing, err>>
    /\ UNCHANGED execOthers

ExecInit == Prepared(FALSE)

ExecNext ==
    \/ GhidraDbg_run \/ GhidraDbg_run_async \/ wrapped_call
    \/ queue_put \/ future_result
    \/ worker_get \/ work_item_run
    \/ state_execute_flag \/ clear_queue \/ state_break_flag
    \/ script_call

ExecSpec == ExecInit /\ [][ExecNext]_vars

\* ExecFairSpec: submit, the running gate and the worker, with the threads
\* scheduled.  The worker's loop
\* takes an item when the queue has one and a work item's function returns
\* or raises (_dispatch_events returns at once, so the loop never blocks);
\* a thread inside submit goes on to its put, and a thread inside
\* GhidraDbg.run polls future.result(0.5) until the future is done.
ExecFairness ==
    /\ WF_vars(worker_get)
    /\ WF_vars(work_item_run)
    /\ \A t \in Callers :
          /\ WF_vars(queue_put /\ thread'[t] # thread[t])
          /\ WF_vars(future_result /\ thread'[t] # thread[t])

ExecFairNext ==
    \/ GhidraDbg_run \/ GhidraDbg_run_async
    \/ queue_put \/ future_result
    \/ worker_get \/ work_item_run
    \/ state_execute_flag \/ clear_queue \/ state_break_flag

ExecFairSpec == ExecInit /\ [][ExecFairNext]_vars /\ ExecFairness

(***************************************************************************)
(* ArchSpec: the functions of arch.py that resolve the language and the    *)
(* compiler, applied under every setting of util.conv_map and every answer *)
(* of the device's query_system_parameters drawn below.  The query either  *)
(* answers or fails with an Exception.                                     *)
(***************************************************************************)
\* The raw architectures: those of language_map, what get_arch makes of a
\* failed query, and one that the table does not have.
Archs == DOMAIN language_map \cup {"Unknown", "ia64"}

Platforms == {"linux", "windows", "darwin"}

\* The answers of the query: every architecture on linux, x64 on every
\* platform, and the failed query.
ParamSets ==
    {[ok |-> TRUE, arch |-> a, platform |-> "linux"] : a \in Archs}
        \cup {[ok |-> TRUE, arch |-> "x64", platform |-> p] : p \in Platforms}
        \cup {[ok |-> FALSE, arch |-> "", platform |-> ""]}

SettingValues(id) ==
    CASE id = "endian" -> {Unset, "auto", "big", "little"}
      [] id = "osabi" -> {Unset, "default", "Cygwin"}
      [] id = "ghidra-language" -> {Unset, NoneValue, "auto", "Toy:BE:32:default", "x86"}
      [] id = "ghidra-compiler" -> {Unset, NoneValue, "auto", "clang"}

\* The languages compute_ghidra_compiler is called with.
CompilerArguments ==
    {"x86:LE:64:default", "x86:LE:32:default", "DATA:BE:64:default",
     "DATA:LE:64:default", "ARM:LE:32:v8", "Toy:BE:32:default"}

ArchSpecInit ==
    /\ Constructed
    /\ conv_map \in {f \in [Settings -> {Unset, NoneValue, "auto", "default", "big", "little",
                                         "Cygwin", "Toy:BE:32:default", "x86", "clang"}] :
                        \A id \in Settings : f[id] \in SettingValues(id)}
    /\ params \in ParamSets
    /\ returned = NoResult

archOthers == <<State, tracing, register_mapper, openTxs, snap, store, current_state, processes,
                targets, spawned, attached, executing, withStack, pc, nput, did, reply, calls,
                execVars, conv_map, params>>

call_compute_ghidra_language ==
    /\ cmd' = "compute_ghidra_language"
    /\ returned' = [NoResult EXCEPT !.of = "compute_ghidra_language",
                                    !.value = compute_ghidra_language]
    /\ err' = "ok"
    /\ UNCHANGED archOthers

call_get_endian ==
    /\ cmd' = "get_endian"
    /\ returned' = [NoResult EXCEPT !.of = "get_endian", !.value = get_endian]
    /\ err' = "ok"
    /\ UNCHANGED archOthers

call_compute_ghidra_compiler ==
    /\ cmd' = "compute_ghidra_compiler"
    /\ \E lang \in CompilerArguments :
        LET r == compute_ghidra_compiler(lang)
        IN /\ returned' = [NoResult EXCEPT !.of = "compute_ghidra_compiler", !.lang = lang,
                                           !.raised = r.raised, !.value = r.value]
           /\ err' = r.raised
    /\ UNCHANGED archOthers

call_compute_ghidra_lcsp ==
    /\ cmd' = "compute_ghidra_lcsp"
    /\ LET r == compute_ghidra_lcsp
       IN /\ returned' = [NoResult EXCEPT !.of = "compute_ghidra_lcsp", !.raised = r.raised,
                                          !.lang = r.lang, !.value = r.comp]
          /\ err' = r.raised
    /\ UNCHANGED archOthers


(***************************************************************************)
(* MapperSpec: DefaultMemoryMapper applied to offsets and to addresses.    *)
(***************************************************************************)
MaxOffset == 5    \* raw offsets 0..MaxOffset

Offsets == 0..MaxOffset

\* Address spaces: the default mapper's 'ram' and two others.
Spaces == {"ram", "register", "overlay"}

mapperOthers == <<State, tracing, register_mapper, openTxs, snap, store, current_state, processes,
                  targets, spawned, attached, executing, withStack, pc, nput, did, reply, calls,
                  execVars, conv_map, params>>

DefaultMemoryMapper_map ==
    /\ cmd' = "map"
    /\ \E defaultSpace \in Spaces, proc \in 0..MaxPid, offset \in Offsets :
        LET r == map(defaultSpace, proc, offset)
        IN returned' = [NoResult EXCEPT !.of = "map", !.self = defaultSpace, !.proc = proc,
                                        !.offset = offset, !.value = r.base,
                                        !.address = r.address]
    /\ err' = "ok"
    /\ UNCHANGED mapperOthers

DefaultMemoryMapper_map_back ==
    /\ cmd' = "map_back"
    /\ \E defaultSpace \in Spaces, proc \in 0..MaxPid,
          address \in [space : Spaces, offset : Offsets] :
        LET r == map_back(defaultSpace, proc, address)
        IN /\ returned' = [NoResult EXCEPT !.of = "map_back", !.self = defaultSpace,
                                           !.proc = proc, !.address = address,
                                           !.raised = r.raised, !.offset = r.offset]
           /\ err' = r.raised
    /\ UNCHANGED mapperOthers

MapperNext == DefaultMemoryMapper_map \/ DefaultMemoryMapper_map_back

MapperSpec == Init /\ [][MapperNext]_vars

\* start_trace's selection of the register mapper: compute_register_mapper
\* applied to the language compute_ghidra_language resolves.
call_compute_register_mapper ==
    /\ cmd' = "compute_register_mapper"
    /\ LET lang == compute_ghidra_language
           r == compute_register_mapper(lang)
       IN /\ returned' = [NoResult EXCEPT !.of = "compute_register_mapper", !.lang = lang,
                                          !.raised = r.raised, !.value = r.value]
          /\ err' = r.raised
    /\ UNCHANGED archOthers

ArchNext ==
    \/ call_get_endian
    \/ call_compute_ghidra_language
    \/ call_compute_ghidra_compiler
    \/ call_compute_ghidra_lcsp
    \/ call_compute_register_mapper

ArchSpec == ArchSpecInit /\ [][ArchNext]_vars

(***************************************************************************)
(* RegisterSpec: the register mappers applied to names and to values.      *)
(***************************************************************************)
MaxBytes == 9    \* magnitudes of 0..MaxBytes bytes, and the wide ones

\* Widths of vector register values beyond a ymm register's.
WideLengths == {YmmBytes + 1, 2 * YmmBytes}

\* Magnitudes of exactly n bytes: the smallest, the largest and two between.
Digits(n) == {<<f>> \o Uniform(n - 1, r) : f \in {1, 255}, r \in {0, 255}}

Magnitudes ==
    {<<>>} \cup UNION {Digits(n) : n \in 1..MaxBytes} \cup UNION {Digits(n) : n \in WideLengths}

Numbers ==
    {[type |-> "int", sign |-> 1, digits |-> d] : d \in Magnitudes}
        \cup {[type |-> "int", sign |-> -1, digits |-> d] : d \in Magnitudes \ {<<>>}}
        \cup {[type |-> t, sign |-> 1, digits |-> <<>>] : t \in {"str", "NoneType"}}

RegisterNames ==
    {NoName, efl, rflags, eflags, zmm, <<"z", "m">>, <<"r", "a", "x">>, <<"r", "i", "p">>,
     <<"z", "m", "m", "3">>, <<"z", "m", "m", "3", "1">>, <<"y", "m", "m", "3">>,
     <<"x", "m", "m", "0">>}

\* The arguments of a call, drawn before the call: the mapper, the process,
\* the register's name and its value.
RegisterInit ==
    /\ Constructed
    /\ conv_map = [k \in Settings |-> Unset]
    /\ params = [ok |-> TRUE, arch |-> "x64", platform |-> "linux"]
    /\ \E self \in RegisterMappers, proc \in 0..MaxPid, name \in RegisterNames,
          value \in Numbers :
        returned = [NoResult EXCEPT !.self = self, !.proc = proc, !.name = name,
                                    !.number = value]

call_map_name ==
    /\ returned.of = "none"
    /\ cmd' = "map_name"
    /\ returned' = [returned EXCEPT !.of = "map_name",
                                    !.out = map_name(returned.self, returned.proc,
                                                     returned.name)]
    /\ err' = "ok"
    /\ UNCHANGED mapperOthers

call_map_value ==
    /\ returned.of = "none"
    /\ cmd' = "map_value"
    /\ LET r == map_value(returned.self, returned.proc, returned.name, returned.number)
       IN /\ returned' = [returned EXCEPT !.of = "map_value", !.raised = r.raised,
                                          !.message = r.message,
                                          !.regval = [name |-> r.name, value |-> r.value]]
          /\ err' = r.raised
    /\ UNCHANGED mapperOthers

\* map_name_back applied to what map_name returned for the name.
call_map_name_back ==
    /\ returned.of = "none"
    /\ cmd' = "map_name_back"
    /\ LET mapped == map_name(returned.self, returned.proc, returned.name)
       IN returned' = [returned EXCEPT !.of = "map_name_back", !.regval.name = mapped,
                                       !.out = map_name_back(returned.self, returned.proc,
                                                             mapped)]
    /\ err' = "ok"
    /\ UNCHANGED mapperOthers

RegisterNext == call_map_name \/ call_map_value \/ call_map_name_back

RegisterSpec == RegisterInit /\ [][RegisterNext]_vars

(***************************************************************************)
(* Properties.  Every command records in `reply` the reply its last        *)
(* scripted query got, so a step whose reply' names a category is a run    *)
(* of that category's synchronisation with that reply.                     *)
(***************************************************************************)
WellFormed(message) ==
    /\ message.type = "send"
    /\ \A i \in 1..Len(message.value) : message.value[i].kind = "ok"

\* The element keys an enumeration yields: a frame's key is its level, every
\* other category's key is its record's key field.
KeySet(cat, values) ==
    IF cat = "frames" THEN {Fmt(i - 1) : i \in 1..Len(values)}
    ELSE {Fmt(values[i].key) : i \in 1..Len(values)}

Earlier(s) == {n \in Snaps : n < s}

\* C1: retention correctness.  After a synchronisation of one of the nine
\* categories whose enumeration is well formed and yields the keys K, the
\* container's visible keys at the current snapshot are exactly K; an element
\* that was visible and is not in K is closed from the current snapshot on;
\* an element in both stays visible; and every element is visible at the
\* earlier snapshots exactly as it was.
RetentionCorrect ==
    [][\A cat \in Categories :
        (reply'.cat = cat /\ WellFormed(reply'.message)) =>
            LET c == Container(cat, current_state', reply'.data)
                K == KeySet(cat, reply'.message.value)
            IN /\ Visible(store', c, snap') = K
               /\ \A p \in DOMAIN store :
                    IsElem(p, c) =>
                        /\ (snap \in store[p].life /\ KeyOf(p) \notin K)
                               => store'[p].life = store[p].life \ From(snap)
                        /\ (snap \in store[p].life /\ KeyOf(p) \in K)
                               => snap \in store'[p].life
                        /\ store'[p].life \cap Earlier(snap) = store[p].life \cap Earlier(snap)
      ]_vars

\* C1's case: a synchronisation has just retired a key that an earlier
\* snapshot still shows, kept another and added a third.
RetentionCorrectWitness ==
    /\ reply.cat \in Categories
    /\ WellFormed(reply.message)
    /\ snap > 1
    /\ LET c == Container(reply.cat, current_state, reply.data)
           K == KeySet(reply.cat, reply.message.value)
       IN /\ \E k \in Visible(store, c, snap - 1) : k \notin Visible(store, c, snap)
          /\ \E k \in K : k \in Visible(store, c, snap - 1)
          /\ \E k \in K : k \notin Visible(store, c, snap - 1)
          /\ Visible(store, c, snap) = K

\* C2: idempotence.  A synchronisation run again right after itself, inside
\* the transaction and with the same reply, leaves the object tree (key sets
\* and values) and the selection as the first run left them.
SyncIdempotent ==
    [][(reply.cat \in Categories /\ reply' = reply) =>
           (store' = store /\ current_state' = current_state)]_vars

\* C2's case: a category has been synchronised twice with the same non-empty
\* enumeration.
SyncIdempotentWitness ==
    /\ nput = MaxPuts + 1
    /\ reply.cat \in Categories
    /\ WellFormed(reply.message)
    /\ Len(reply.message.value) = MaxRecs
    /\ Visible(store, Container(reply.cat, current_state, reply.data), snap)
           = KeySet(reply.cat, reply.message.value)

MutatingCommands ==
    {"ghidra_trace_put_sessions", "ghidra_trace_put_processes",
     "ghidra_trace_put_available", "ghidra_trace_put_applications",
     "ghidra_trace_put_session_attributes", "ghidra_trace_put_environment",
     "ghidra_trace_put_regions", "ghidra_trace_put_kregions", "ghidra_trace_put_heap",
     "ghidra_trace_put_modules", "ghidra_trace_put_kmodules",
     "ghidra_trace_put_sections", "ghidra_trace_put_imports",
     "ghidra_trace_put_exports", "ghidra_trace_put_symbols",
     "ghidra_trace_put_dependencies", "ghidra_trace_put_threads",
     "ghidra_trace_put_frames", "ghidra_trace_put_loaded_classes_objc",
     "ghidra_trace_put_loaded_classes_java", "ghidra_trace_put_class_loaders_java",
     "ghidra_trace_put_all", "ghidra_trace_putmem", "ghidra_trace_putmem_state",
     "ghidra_trace_delmem", "ghidra_trace_putreg", "ghidra_trace_create_obj",
     "ghidra_trace_insert_obj", "ghidra_trace_remove_obj", "ghidra_trace_set_value",
     "ghidra_trace_retain_values", "ghidra_trace_disassemble", "ghidra_trace_new_snap"}

\* C3: transaction precondition.  A mutating command run while STATE.tx is
\* None raises "No transaction" having opened no batch, sent no query and
\* changed neither the trace nor anything else.
TxPrecondition ==
    [][(State.tx = None /\ cmd' \in MutatingCommands) =>
           /\ err' = "No transaction"
           /\ did' = {}
           /\ reply' = NoReply
           /\ UNCHANGED allButErr
      ]_vars

\* C3's case: a mutating command was just rejected on a started trace that
\* has a selected, attached process to query.
TxPreconditionWitness ==
    /\ cmd \in MutatingCommands
    /\ State.tx = None
    /\ State.trace # None
    /\ current_state.pid \in targets
    /\ err = "No transaction"

\* C4: at most one transaction is open on the trace at any time.
AtMostOneTx == Cardinality(openTxs) <= 1

\* C5: ghidra_trace_txstart while STATE.tx is held raises "Transaction
\* already started", starts no transaction and leaves STATE as it was; with
\* no transaction held and no active trace it raises "No trace active" and
\* STATE.tx stays None.
TxStartRejected ==
    [][cmd' = "ghidra_trace_txstart" =>
           /\ State.tx # None =>
                  /\ err' = "Transaction already started"
                  /\ openTxs' = openTxs
                  /\ State' = State
           /\ (State.tx = None /\ State.trace = None) =>
                  /\ err' = "No trace active"
                  /\ openTxs' = openTxs
                  /\ State'.tx = None
      ]_vars

\* C5's case: ghidra_trace_txstart was just rejected while the session holds
\* an open transaction.
TxStartRejectedWitness ==
    /\ cmd = "ghidra_trace_txstart"
    /\ err = "Transaction already started"
    /\ State.tx \in openTxs

\* C6: when the body of an open_tracked_tx block finishes, normally or by
\* raising, its transaction is no longer open and STATE.tx is None.
TrackedTxReleased ==
    [][cmd' = "open_tracked_tx_exit" =>
           /\ withStack[Len(withStack)] \notin openTxs'
           /\ State'.tx = None
      ]_vars

\* C7: a synchronisation whose query got an error reply, a reply without
\* payload, None or no reply at all surfaces an error and leaves the object
\* tree as it was.
FailedQueryLeavesTrace ==
    [][(reply'.cat \in Categories /\ reply'.message.type \in FailureTypes) =>
           /\ err' # "ok"
           /\ store' = store
      ]_vars

\* The keys of the records of an enumeration that can be written: a frame's
\* key is its level among the written ones.
WrittenKeySet(cat, values) ==
    LET ok == {i \in 1..Len(values) : values[i].kind = "ok"}
    IN IF cat = "frames" THEN {Fmt(n - 1) : n \in 1..Cardinality(ok)}
       ELSE {Fmt(values[i].key) : i \in ok}

\* C8: in a region, module, section or frame synchronisation a record that
\* cannot be normalised is skipped alone: the other records are written and
\* inserted and retention runs with the keys of the written records.
RecordFailureLocal ==
    [][\A cat \in {"regions", "modules", "sections", "frames"} :
        (reply'.cat = cat /\ reply'.message.type = "send") =>
            /\ "retain" \in did'
            /\ Visible(store', Container(cat, current_state', reply'.data), snap')
                   = WrittenKeySet(cat, reply'.message.value)
      ]_vars

\* C9: when ghidra_trace_create, attach_by_pid or attach_by_name raises "No
\* trace active", nothing was spawned or attached and neither the selected
\* process nor util.processes nor util.targets changed.
NoTraceNoSideEffect ==
    [][(cmd' \in {"ghidra_trace_create", "attach_by_pid", "attach_by_name"}
            /\ err' = "No trace active") =>
           /\ spawned' = spawned
           /\ attached' = attached
           /\ current_state' = current_state
           /\ processes' = processes
           /\ targets' = targets
      ]_vars

\* C10: while the executor's _executing flag is set, a per-category
\* synchronisation is a no-op: no error reaches the caller, no object is
\* written and no retention is requested.
RunningSkip ==
    [][(executing /\ State.tx # None
            /\ cmd' \in {"ghidra_trace_put_processes", "ghidra_trace_put_available",
                         "ghidra_trace_put_applications", "ghidra_trace_put_environment",
                         "ghidra_trace_put_regions", "ghidra_trace_put_modules",
                         "ghidra_trace_put_threads"}) =>
           /\ err' = "ok"
           /\ store' = store
           /\ "retain" \notin did'
      ]_vars

\* C11: ghidra_trace_put_all, run inside a transaction while the target is
\* running, calls every one of its ten operations: an operation that fails
\* because the target is running does not keep the later ones from being
\* called.
PutAllAttemptsAll ==
    [][(cmd' = "ghidra_trace_put_all" /\ executing /\ State.tx # None /\ nput < MaxPuts) =>
           {"sessions"} \cup Range(PutAllOrder) \subseteq did'
      ]_vars

\* C12: once _state_execute has returned, and until _state_break, the
\* executor holds no work: every submit was refused with a failed future
\* and enqueued nothing, and what was queued has been removed and failed,
\* so the queue is empty and no caller waits on a pending future that is
\* not being run.
RunningRejectsWork ==
    (executing /\ thread[Gate].at = "idle") =>
        /\ work_queue = <<>>
        /\ \A t \in Callers : thread[t].at = "wait" =>
              \/ future[thread[t].item] # "pending"
              \/ thread[Worker] = [at |-> "run", item |-> thread[t].item]

\* The place of work item i in the order the worker took the items (0: it
\* has not taken it).
Taken(i) ==
    IF \E n \in 1..Len(ranlog) : ranlog[n] = i
    THEN CHOOSE n \in 1..Len(ranlog) : ranlog[n] = i
    ELSE 0

\* C13: the worker takes the work items of one submitter in the order that
\* submitter created them (a thread puts one item before it creates the
\* next), runs one item at a time, and does not run an item while an
\* earlier item of the same submitter is still pending.
FifoExecution ==
    /\ \A i, j \in Items :
          (i < j /\ submitted[i].by = submitted[j].by /\ Taken(i) > 0 /\ Taken(j) > 0)
              => Taken(i) < Taken(j)
    /\ \A n, m \in 1..Len(ranlog) : ranlog[n] = ranlog[m] => n = m
    /\ thread[Worker].at = "run" =>
          \A i \in 1..(thread[Worker].item - 1) :
              submitted[i].by = submitted[thread[Worker].item].by => future[i] # "pending"

\* C13's case: the worker has taken and run two work items of the same
\* submitter.
FifoExecutionWitness ==
    /\ Len(ranlog) = 2
    /\ submitted[ranlog[1]].by = submitted[ranlog[2]].by
    /\ future[ranlog[1]] = "done"
    /\ future[ranlog[2]] = "done"

\* C14: every call into the target, a wrapped call of the device or a script
\* created, loaded and unloaded on a session, is executed by the worker
\* thread.
EngineAffinity == lastcall.thread \in {"none", Worker}

\* C15: the worker thread never submits a work item and never waits for a
\* future: GhidraDbg.run on the worker thread raises WrongThreadException
\* and leaves the queue, the futures and the threads as they were, and a
\* wrapped method called on the worker thread runs there and then.
NoSelfDeadlock ==
    [][/\ \A i \in Items : submitted'[i].by # Worker
       /\ thread'[Worker].at \in {"idle", "run"}
       /\ (cmd' = "GhidraDbg.run" /\ err' = "WrongThreadException") =>
              UNCHANGED <<work_queue, future, submitted, thread>>
       /\ (cmd' \in {"GhidraDbg.run", "wrapped call"} /\ future' = future) =>
              UNCHANGED <<work_queue, thread>>
      ]_vars

\* C15's case: the function of a work item called GhidraDbg.run on the
\* worker thread, which is still running that item.
NoSelfDeadlockWitness ==
    /\ cmd = "GhidraDbg.run"
    /\ err = "WrongThreadException"
    /\ thread[Worker].at = "run"

\* The candidates of the device's architecture that carry the tag of the
\* resolved endianness.
EndianTag == IF get_endian = "big" THEN ":BE:" ELSE ":LE:"

Candidates ==
    IF params.ok /\ params.arch \in DOMAIN language_map
    THEN {l \in Range(language_map[params.arch]) : Contains(l, EndianTag)}
    ELSE {}

Overridden(id) == conv_map[id] \notin {Unset, NoneValue, "auto"}

\* C16: with no language override, for an architecture of language_map that
\* has a candidate of the resolved endianness, compute_ghidra_language
\* returns one of these candidates: one ending in ':default' if there is
\* one, and otherwise one that no other candidate is shorter than.
LanguageOfKnownArch ==
    (returned.of = "compute_ghidra_language" /\ ~Overridden("ghidra-language")
        /\ Candidates # {}) =>
        /\ returned.value \in Candidates
        /\ IF Candidates \cap EndsWithDefault # {}
           THEN returned.value \in EndsWithDefault
           ELSE \A l \in Candidates : StrLen[returned.value] <= StrLen[l]

\* C16's case: riscv:rv32 resolved for little endian, where the ':default'
\* candidate is longer than others.
LanguageOfKnownArchWitness ==
    /\ returned.of = "compute_ghidra_language"
    /\ ~Overridden("ghidra-language")
    /\ params.ok /\ params.arch = "riscv:rv32"
    /\ returned.value = "RISCV:LE:32:default"

\* C17: with no language override, for an architecture that language_map
\* does not have (the "Unknown" of a failed query included) or that has no
\* candidate of the resolved endianness, compute_ghidra_language returns
\* DATA:BE:64:default for big and DATA:LE:64:default otherwise; and it never
\* returns an id that carries only the other endianness' tag.
LanguageFallback ==
    (returned.of = "compute_ghidra_language" /\ ~Overridden("ghidra-language")) =>
        /\ Candidates = {} =>
              returned.value = (IF get_endian = "big" THEN "DATA:BE:64:default"
                                ELSE "DATA:LE:64:default")
        /\ returned.value \notin (IF get_endian = "big" THEN ContainsLE \ ContainsBE
                                  ELSE ContainsBE \ ContainsLE)

\* C17's case: x64, which has only a little-endian candidate, resolved for
\* big endian.
LanguageFallbackWitness ==
    /\ returned.of = "compute_ghidra_language"
    /\ ~Overridden("ghidra-language")
    /\ params.ok /\ params.arch = "x64"
    /\ conv_map["endian"] = "big"
    /\ returned.value = "DATA:BE:64:default"

\* C18: a 'ghidra-language' setting other than 'auto' is what
\* compute_ghidra_language (and compute_ghidra_lcsp's language) returns, a
\* 'ghidra-compiler' setting other than 'auto' is what
\* compute_ghidra_compiler (and compute_ghidra_lcsp's compiler) returns,
\* each whatever the other setting is; an unset setting and one set to None
\* are resolved as 'auto' is, never returned.
OverridesWin ==
    /\ (returned.of = "compute_ghidra_language" /\ Overridden("ghidra-language")) =>
          returned.value = conv_map["ghidra-language"]
    /\ (returned.of = "compute_ghidra_lcsp" /\ Overridden("ghidra-language")) =>
          returned.lang = conv_map["ghidra-language"]
    /\ (returned.of \in {"compute_ghidra_compiler", "compute_ghidra_lcsp"}
           /\ Overridden("ghidra-compiler")) =>
          returned.raised = "ok" /\ returned.value = conv_map["ghidra-compiler"]
    /\ (returned.of = "compute_ghidra_language" /\ ~Overridden("ghidra-language")) =>
          returned.value \in LanguageIds
    /\ (returned.of = "compute_ghidra_lcsp" /\ ~Overridden("ghidra-language")) =>
          returned.lang \in LanguageIds
    /\ (returned.of \in {"compute_ghidra_compiler", "compute_ghidra_lcsp"}
           /\ ~Overridden("ghidra-compiler") /\ returned.raised = "ok") =>
          returned.value \in {"default", "pointer64", "gcc", "windows", "Visual Studio"}

\* C18's case: compute_ghidra_lcsp with the language overridden and the
\* compiler setting never set.
OverridesWinWitness ==
    /\ returned.of = "compute_ghidra_lcsp"
    /\ conv_map["ghidra-language"] = "Toy:BE:32:default"
    /\ conv_map["ghidra-compiler"] = Unset
    /\ returned.lang = "Toy:BE:32:default"

\* C19: with no compiler override, compute_ghidra_compiler(lang) always
\* returns a compiler id and never raises: 'default' for a language without
\* a compiler_map entry, 'pointer64' for the DATA languages, and for
\* x86:LE:64:default 'windows' on OS/ABI windows and 'gcc' on linux.
CompilerAlwaysResolves ==
    (returned.of = "compute_ghidra_compiler" /\ ~Overridden("ghidra-compiler")) =>
        /\ returned.raised = "ok"
        /\ returned.lang \notin DOMAIN compiler_map => returned.value = "default"
        /\ returned.lang \in {"DATA:BE:64:default", "DATA:LE:64:default"} =>
              returned.value = "pointer64"
        /\ (returned.lang = "x86:LE:64:default" /\ conv_map["osabi"] \in {Unset, "default"}
               /\ params.ok /\ params.platform = "windows") => returned.value = "windows"
        /\ (returned.lang = "x86:LE:64:default" /\ conv_map["osabi"] \in {Unset, "default"}
               /\ params.ok /\ params.platform = "linux") => returned.value = "gcc"

\* C20: map(p, x) of a DefaultMemoryMapper with default space S returns S and
\* the address (S, x), and map_back of that address is x; map_back of an
\* address of another space raises ValueError and returns no offset.
MapperRoundTrip ==
    /\ returned.of = "map" =>
          /\ returned.value = returned.self
          /\ returned.address = [space |-> returned.self, offset |-> returned.offset]
          /\ map_back(returned.self, returned.proc, returned.address)
                 = [raised |-> "ok", offset |-> returned.offset]
    /\ returned.of = "map_back" =>
          IF returned.address.space = returned.self
          THEN returned.raised = "ok" /\ returned.offset = returned.address.offset
          ELSE returned.raised = "ValueError" /\ returned.offset = None

\* C20's case: map_back was given an address of a space that is not the
\* mapper's.
MapperRoundTripWitness ==
    /\ returned.of = "map_back"
    /\ returned.address.space # returned.self
    /\ returned.raised = "ValueError"


\* C21: the x86-64 mapper's map_name gives 'rflags' for 'efl', 'ymm'+s for
\* 'zmm'+s, 'UNKNOWN' for None and every other name unchanged; and the name
\* of the RegVal its map_value returns is map_name of the raw name.
IntelNameMapping ==
    /\ (returned.of = "map_name" /\ returned.self = Intel_x86_64_RegisterMapper) =>
          LET n == returned.name
              out == returned.out
          IN IF n = NoName THEN out = UNKNOWN
             ELSE IF n = efl THEN out = rflags
             ELSE IF Len(n) >= 3 /\ n[1] = "z" /\ n[2] = "m" /\ n[3] = "m"
             THEN /\ Len(out) = Len(n)
                  /\ out[1] = "y"
                  /\ \A i \in 2..Len(n) : out[i] = n[i]
             ELSE out = n
    /\ (returned.of = "map_value" /\ returned.self = Intel_x86_64_RegisterMapper
           /\ returned.raised = "ok") =>
          returned.regval.name = map_name(returned.self, returned.proc, returned.name)

\* C21's case: map_value of 'zmm3' returned a RegVal named 'ymm3'.
IntelNameMappingWitness ==
    /\ returned.of = "map_value"
    /\ returned.self = Intel_x86_64_RegisterMapper
    /\ returned.name = <<"z", "m", "m", "3">>
    /\ returned.raised = "ok"
    /\ returned.regval.name = <<"y", "m", "m", "3">>

\* C22: the x86-64 mapper's map_value of a zmm register whose value takes
\* more than 32 and at most 64 bytes succeeds, and returns a RegVal named
\* 'ymm'+N whose value is the 32 low-order bytes of the raw value.
WideRegisterTruncated ==
    (/\ returned.of = "map_value"
     /\ returned.self = Intel_x86_64_RegisterMapper
     /\ startswith(returned.name, zmm)
     /\ returned.number.type = "int" /\ returned.number.sign = 1
     /\ Len(returned.number.digits) > YmmBytes
     /\ Len(returned.number.digits) <= 2 * YmmBytes) =>
        LET d == returned.number.digits
        IN /\ returned.raised = "ok"
           /\ returned.regval.name = ymm \o SubSeq(returned.name, 4, Len(returned.name))
           /\ returned.regval.value = SubSeq(d, Len(d) - YmmBytes + 1, Len(d))

\* C28: map_value of the big and of the little default mapper returns, for
\* an int v with 0 <= v < 2^64, the 8 bytes of v's big-endian encoding, and
\* raises ValueError with a message naming the register for a negative v,
\* for v >= 2^64 and for a value that is no int.
FixedWidthEncoding ==
    (returned.of = "map_value"
        /\ returned.self \in {DEFAULT_BE_REGISTER_MAPPER, DEFAULT_LE_REGISTER_MAPPER}) =>
        LET v == returned.number
            d == v.digits
            fits == v.type = "int" /\ v.sign = 1 /\ Len(d) <= RegisterBytes
            register == str(returned.name)
        IN IF fits
           THEN /\ returned.raised = "ok"
                /\ Len(returned.regval.value) = RegisterBytes
                /\ \A i \in 1..RegisterBytes :
                      returned.regval.value[i] =
                          IF i + Len(d) <= RegisterBytes THEN 0
                          ELSE d[i + Len(d) - RegisterBytes]
           ELSE /\ returned.raised = "ValueError"
                /\ SubSeq(returned.message, 2, 1 + Len(register)) = register

\* C28's case: the little-endian default mapper returned the eight bytes of
\* 2^64 - 1, and no larger value was accepted.
FixedWidthEncodingWitness ==
    /\ returned.of = "map_value"
    /\ returned.self = DEFAULT_LE_REGISTER_MAPPER
    /\ returned.number = [type |-> "int", sign |-> 1, digits |-> Uniform(RegisterBytes, 255)]
    /\ returned.raised = "ok"
    /\ returned.regval.value = Uniform(RegisterBytes, 255)

\* C29: map_name_back of what map_name returned for a name is that name,
\* for the x86-64 mapper and every name that is no zmm alias ('efl' and the
\* names map_name leaves unchanged included), and for the default mappers
\* and every name.
NameRoundTrip ==
    (returned.of = "map_name_back" /\ returned.name # NoName
        /\ ~(returned.self = Intel_x86_64_RegisterMapper /\ startswith(returned.name, zmm))) =>
        returned.out = returned.name

\* C30: compute_register_mapper returns the x86-64 mapper for
\* 'x86:LE:64:default', and for any other language the big-endian default
\* mapper if the id contains ':BE:' and the little-endian one if it contains
\* ':LE:'; for every language compute_ghidra_language returns (a table
\* entry, a DATA fallback or the user's override) it returns a mapper and
\* does not raise.
MapperSelectionTotal ==
    returned.of = "compute_register_mapper" =>
        /\ returned.raised = "ok"
        /\ returned.value \in RegisterMappers
        /\ returned.lang = "x86:LE:64:default" =>
              returned.value = Intel_x86_64_RegisterMapper
        /\ (returned.lang # "x86:LE:64:default" /\ returned.lang \in ContainsBE) =>
              returned.value = DEFAULT_BE_REGISTER_MAPPER
        /\ (returned.lang # "x86:LE:64:default" /\ returned.lang \in ContainsLE
               /\ returned.lang \notin ContainsBE) =>
              returned.value = DEFAULT_LE_REGISTER_MAPPER

\* C24: put_processes, put_available and put_applications retain the
\* container they wrote to: after each, the keys visible under
\* Sessions[local].Processes, .Available or .Applications are exactly the
\* keys of the processes just written, so a key that is no longer
\* enumerated is retired.
ListRetentionOnWrittenPath ==
    [][/\ (cmd' = "ghidra_trace_put_processes" /\ nput' # nput) =>
              Visible(store', PROCESSES_PATH_format("local"), snap)
                  = {PROCESS_KEY_PATTERN(pid) : pid \in processes}
       /\ reply'.cat = "available" =>
              Visible(store', Child(SESSION_PATTERN("local"), "Available"), snap)
                  = {Fmt(r.key) : r \in Range(reply'.message.value)}
       /\ reply'.cat = "applications" =>
              Visible(store', Child(SESSION_PATTERN("local"), "Applications"), snap)
                  = {Fmt(r.key) : r \in Range(reply'.message.value)}
      ]_vars

\* The class records of an enumeration that are the last with their key.
LastOfKey(values) ==
    {i \in 1..Len(values) : \A j \in (i + 1)..Len(values) : values[j].key # values[i].key}

\* C25: after put_loaded_classes with a well-formed enumeration, the keys
\* visible under Classes are exactly the class keys of the enumeration, and
\* the keys visible under each class's Methods are exactly the methods
\* written for that class: every method just inserted is still visible, and
\* no method key counts as a class key.
LoadedClassesRetained ==
    [][(reply'.cat = "classes" /\ WellFormed(reply'.message) /\ err' = "ok") =>
           LET values == reply'.message.value
               cs == current_state'
           IN /\ Visible(store', CLASSES_PATTERN(cs.sid, cs.pid), snap')
                     = KeySet("classes", values)
              /\ \A i \in LastOfKey(values) :
                     Visible(store', METHODS_PATTERN(cs.sid, cs.pid, Fmt(values[i].key)), snap')
                         = Methods(values[i])
      ]_vars

\* The elements of the Processes container, and of a process's Modules and
\* Threads containers.
IsProcess(p) == Len(p) = 4 /\ p[1] = "Sessions" /\ p[3] = "Processes"

IsModule(p) == Len(p) = 6 /\ IsProcess(SubSeq(p, 1, 4)) /\ p[5] = "Modules"

IsThread(p) == Len(p) = 6 /\ IsProcess(SubSeq(p, 1, 4)) /\ p[5] = "Threads"

\* If p was inserted, each named child of p is inserted at every snapshot
\* at which p is.
HasChildren(p, names) ==
    store[p].life # {} =>
        \A n \in names :
            /\ Child(p, n) \in DOMAIN store
            /\ store[p].life \subseteq store[Child(p, n)].life

PutCalls == SelectSeq(calls, LAMBDA c : c.call = "put_registers")

\* C23: in put_threads and putreg the register overlay space of a thread
\* (base 'register', named by the thread's Registers path) is requested
\* before put_registers writes to it; and however often it is requested,
\* the trace has exactly one such space for each register bank written.
OverlayBeforeUse ==
    /\ \A j \in 1..Len(calls) :
          calls[j].call = "put_registers" =>
              \E i \in 1..(j - 1) : calls[i] = CreateOverlayCall("register", calls[j].space)
    /\ \A p \in DOMAIN store :
          /\ (Len(p) > 1 /\ p[1] = "<registers>") =>
                OverlaySpace("register", Tail(p)) \in DOMAIN store
          /\ (Len(p) > 1 /\ p[1] = "<overlay>") => store[p].val[snap] = 1

\* C23's case: putreg on the thread that the earlier synchronisation
\* selected, whose register space that synchronisation created.
OverlayBeforeUseWitness ==
    /\ cmd = "ghidra_trace_putreg"
    /\ err = "ok"
    /\ current_state.tid # None
    /\ Len(calls) = 2
    /\ calls[1] = CreateOverlayCall("register", REGS_PATTERN(current_state.sid,
                                                              current_state.pid,
                                                              current_state.tid))
    /\ calls[2].call = "put_registers"

\* The RegVals of the registers of a context whose text is a number that
\* fits the register's bytes, in the context's order.
Converted(pid, context) ==
    LET fits(e) == /\ int(e.rval).raised = "ok"
                   /\ to_bytes(int(e.rval).value, RegisterBytes).raised = "ok"
        ok == SelectSeq(context, fits)
    IN [i \in 1..Len(ok) |->
           [name |-> map_name(register_mapper, pid, ok[i].name),
            value |-> to_bytes(int(ok[i].rval).value, RegisterBytes).value]]

\* C27: a register whose conversion fails is left out and nothing else is:
\* put_threads calls put_registers once for each thread of a well-formed
\* enumeration, in order, with the values of exactly the registers that
\* convert, and retains the threads; putreg calls it once for the selected
\* thread with the values of exactly the registers that convert.
ConversionFailureLocal ==
    /\ (cmd = "ghidra_trace_put_threads" /\ reply.cat = "threads"
           /\ WellFormed(reply.message)) =>
          LET values == reply.message.value
          IN /\ Len(PutCalls) = Len(values)
             /\ \A i \in 1..Len(values) :
                   /\ PutCalls[i].space = REGS_PATTERN(current_state.sid, current_state.pid,
                                                       values[i].key)
                   /\ PutCalls[i].values = Converted(current_state.pid, Context(values[i]))
                   /\ store[RegisterBank(PutCalls[i].space)].val[snap] = PutCalls[i].values
             /\ "retain" \in did
             /\ Visible(store, THREADS_PATTERN(current_state.sid, current_state.pid), snap)
                    = KeySet("threads", values)
    /\ (cmd = "ghidra_trace_putreg" /\ reply.cat = "reg" /\ WellFormed(reply.message)
           /\ \E i \in 1..Len(reply.message.value) :
                 reply.message.value[i].key = current_state.tid) =>
          LET values == reply.message.value
              t == CHOOSE i \in 1..Len(values) : values[i].key = current_state.tid
          IN /\ Len(PutCalls) = 1
             /\ PutCalls[1].values = Converted(current_state.pid, Context(values[t]))

\* C27's case: put_threads on thread 2, three of whose five registers do
\* not convert, and then on thread 3: rax and rflags are put for thread 2,
\* and thread 3 is processed and retained.
ConversionFailureLocalWitness ==
    /\ cmd = "ghidra_trace_put_threads"
    /\ Len(PutCalls) = 2
    /\ PutCalls[1].space = REGS_PATTERN(current_state.sid, current_state.pid, 2)
    /\ PutCalls[1].values =
           <<[name |-> <<"r", "a", "x">>, value |-> <<0, 0, 0, 0, 0, 0, 0, 42>>],
             [name |-> rflags, value |-> <<0, 0, 0, 0, 0, 0, 2, 70>>]>>
    /\ PutCalls[2].space = REGS_PATTERN(current_state.sid, current_state.pid, 3)
    /\ "retain" \in did
    /\ Visible(store, THREADS_PATTERN(current_state.sid, current_state.pid), snap)
           = {Fmt(2), Fmt(3)}

\* The endianness the settings ask for: the 'endian' setting unless it is
\* unset or "auto", little otherwise.  The target is asked for its
\* architecture and platform only; it reports no endianness.
ResolvedEndian ==
    IF conv_map["endian"] \in {Unset, NoneValue, "auto"} THEN "little" ELSE conv_map["endian"]

TxCalls == SelectSeq(calls, LAMBDA c : c.call \in {"commit", "abort"})

\* C32: whenever ghidra_trace_txcommit, ghidra_trace_txabort,
\* ghidra_trace_stop, ghidra_trace_restart or ghidra_trace_disconnect takes
\* STATE.tx from a transaction to None, the command has called commit or
\* abort on that transaction.
TxNeverForgotten ==
    [][(/\ cmd' \in {"ghidra_trace_txcommit", "ghidra_trace_txabort", "ghidra_trace_stop",
                     "ghidra_trace_restart", "ghidra_trace_disconnect"}
        /\ State.tx # None
        /\ State'.tx = None)
       => \E op \in {"commit", "abort"} : TxCall(op, State.tx) \in Range(calls')
      ]_vars

\* What ghidra_trace_txcommit and ghidra_trace_txabort leave alone when they
\* raise.
TxUntouched == <<State, tracing, register_mapper, openTxs, snap, store, current_state,
                 processes, targets, nput>>

\* C33: ghidra_trace_txcommit (ghidra_trace_txabort) with a transaction held
\* calls commit (abort) on it exactly once and nothing else on a
\* transaction, leaves STATE.tx None and no transaction open, so that a
\* following ghidra_trace_txstart passes both its preconditions; with no
\* transaction held it raises "No transaction" and changes nothing.
CommitAbortClose ==
    [][\A op \in {"commit", "abort"} :
          cmd' = (IF op = "commit" THEN "ghidra_trace_txcommit" ELSE "ghidra_trace_txabort") =>
              IF State.tx # None
              THEN /\ err' = "ok"
                   /\ calls' = <<TxCall(op, State.tx)>>
                   /\ State'.tx = None
                   /\ openTxs' = {}
                   /\ ~require_no_tx_fails(State')
                   /\ ~require_trace_fails(State')
              ELSE /\ err' = "No transaction"
                   /\ TxCalls' = <<>>
                   /\ TxUntouched' = TxUntouched
      ]_vars

\* C33's case: the transaction that ghidra_trace_txstart opened and a
\* put_regions wrote in has just been committed.
CommitAbortCloseWitness ==
    /\ cmd = "ghidra_trace_txcommit"
    /\ err = "ok"
    /\ calls = <<TxCall("commit", 1)>>
    /\ State.tx = None /\ openTxs = {}
    /\ nput > 0
    /\ \E p \in DOMAIN store : IsElem(p, REGIONS_PATTERN("local", 1)) /\ store[p].life # {}

\* C34: when ghidra_trace_start passes its preconditions and start_trace then
\* raises, STATE.trace is None and '_ghidra_tracing' is "false" afterwards,
\* so that require_no_trace passes for a later ghidra_trace_start.
FailedStartNoTrace ==
    [][(cmd' = "ghidra_trace_start" /\ err' = "start_trace failed") =>
           /\ State'.trace = None
           /\ tracing' = "false"
           /\ ~require_no_trace_fails(State')
      ]_vars

\* The ranges of the calls named op among the calls of the last command.
MemRanges(op) ==
    {<<calls[i].start, calls[i].end>> : i \in {k \in 1..Len(calls) : calls[k].call = op}}

\* C35: the byte range [s, e) that ghidra_trace_putmem(address, length)
\* records into the trace is the page-quantized range of the read: s and e
\* are multiples of PAGE_SIZE, s <= address, address + length <= e, and
\* either end is less than a page away from the range asked for.
PutmemQuantized ==
    cmd = "ghidra_trace_putmem" =>
        \A asked \in MemRanges("putmem"), put \in MemRanges("put_bytes") :
            /\ put[1] % PAGE_SIZE = 0 /\ put[2] % PAGE_SIZE = 0
            /\ put[1] <= asked[1] /\ asked[2] <= put[2]
            /\ asked[1] - put[1] < PAGE_SIZE
            /\ put[2] - asked[2] < PAGE_SIZE

\* C37: when the scripted read of putmem(address, length) fails, the range
\* set to 'error' is the page-quantized range of [address, address + length):
\* it ends at the page boundary above address + length.
MemErrorRange ==
    cmd = "ghidra_trace_putmem" =>
        \A asked \in MemRanges("putmem"), marked \in MemRanges("set_memory_state") :
            marked = quantize_pages(asked[1], asked[2])

\* C36: in every state of the session STATE.tx is held only with a trace,
\* a trace only with a client, and '_ghidra_tracing' is "true" only with a
\* trace.
SessionNesting ==
    /\ State.tx # None => State.trace # None
    /\ State.trace # None => State.client # None
    /\ tracing = "true" => State.trace # None

\* C36's case: the body of an open_tracked_tx block has raised, which left
\* its closed transaction in STATE.tx; the trace and the client are there.
SessionNestingWitness ==
    /\ cmd = "open_tracked_tx_exit"
    /\ err = "raised in with block"
    /\ State.tx # None /\ State.tx \notin openTxs
    /\ State.trace # None /\ State.client # None

\* The commands that synchronise one category of the target, or registers
\* or memory, other than ghidra_trace_put_threads.
OtherPuts ==
    {"ghidra_trace_put_regions", "ghidra_trace_put_modules", "ghidra_trace_put_sections",
     "ghidra_trace_put_imports", "ghidra_trace_put_exports", "ghidra_trace_put_symbols",
     "ghidra_trace_put_dependencies", "ghidra_trace_put_frames",
     "ghidra_trace_put_kregions", "ghidra_trace_put_kmodules", "ghidra_trace_put_heap",
     "ghidra_trace_put_loaded_classes_objc", "ghidra_trace_put_loaded_classes_java",
     "ghidra_trace_put_class_loaders_java", "ghidra_trace_put_sessions",
     "ghidra_trace_put_processes", "ghidra_trace_put_available",
     "ghidra_trace_put_applications", "ghidra_trace_put_session_attributes",
     "ghidra_trace_put_environment", "ghidra_trace_putreg", "ghidra_trace_putmem",
     "ghidra_trace_putmem_state"}

\* The thread records that the handler of the last command was called with.
EnumeratedThreads ==
    IF reply.cat = "threads" /\ reply.message.type = "send" /\ "query" \in did
    THEN reply.message.value ELSE <<>>

\* The thread selected once put_threads_callback has gone through values
\* with tid selected before: the id of the last record whose 'id' was read,
\* which is the last record unless an earlier one lacks a field.
RECURSIVE LastSelected(_, _)
LastSelected(values, tid) ==
    IF values = <<>> THEN tid
    ELSE IF Head(values).kind = "missing" THEN tid
    ELSE IF Head(values).kind = "unparseable" THEN Head(values).key
    ELSE LastSelected(Tail(values), Head(values).key)

NoWorkPastGate ==
    [][(executing /\ thread[Gate].at = "idle" /\ executing') =>
           /\ work_queue = <<>> /\ work_queue' = <<>>
           /\ ranlog' = ranlog
      ]_vars

\* The future of work item i has its result or its exception.
Completed(i) == future[i] \notin {"unborn", "pending"}

InQueue(i) == \E n \in DOMAIN work_queue : work_queue[n] = i

\* A step sets a future at most once and by one of three: the rejection in
\* submit while _executing is set, _clear_queue taking the item, or the
\* worker running it; a future that is set stays as it is, and its item is
\* neither in the queue nor with the worker, so nothing sets it again.
CompletedOnceStep ==
    \A i \in Items :
        /\ Completed(i) =>
              /\ future'[i] = future[i]
              /\ ~InQueue(i)'
              /\ thread'[Worker].item # i
        /\ (future[i] = "unborn" /\ Completed(i)') =>
              /\ cmd' \in {"GhidraDbg.run", "GhidraDbg.run_async", "wrapped call"}
              /\ executing
              /\ future'[i] = "DebuggeeRunningException"
              /\ ~InQueue(i)'
        /\ (future[i] = "pending" /\ Completed(i)') =>
              \/ /\ cmd' = "_clear_queue"
                 /\ work_queue # <<>> /\ Head(work_queue) = i
                 /\ future'[i] = "DebuggeeRunningException"
              \/ /\ cmd' = "work item run"
                 /\ thread[Worker] = [at |-> "run", item |-> i]
                 /\ future'[i] = "done"

\* C40: the future of every work item is set exactly once, by the rejection
\* in submit, by _clear_queue or by the worker running the item; and with
\* the worker scheduled and the submitted functions returning, every future
\* that submit left pending is completed, and every thread inside
\* GhidraDbg.run returns or raises.
EverySubmittedCompleted ==
    /\ [][CompletedOnceStep]_vars
    /\ \A i \in Items : (future[i] = "pending") ~> Completed(i)
    /\ \A t \in Callers : (thread[t].at \in {"put", "wait"}) ~> (thread[t].at = "idle")

\* C40's case: one work item was run by the worker and GhidraDbg.run has
\* returned its result to the caller, another was removed by _clear_queue.
EverySubmittedCompletedWitness ==
    /\ cmd = "future.result"
    /\ \E i, j \in Items :
          /\ future[i] = "done" /\ i \in Range(ranlog)
          /\ future[j] = "DebuggeeRunningException" /\ j \notin Range(ranlog)
          /\ thread[submitted[i].by].at = "idle"
          /\ thread[submitted[j].by].at = "idle"
    /\ work_queue = <<>>
=============================================================================
